---- MODULE Spec2Model ----
(***************************************************************************)
(* Model of the bulk e-mail sender: the POST /api/send-emails handler of   *)
(* server/routes.ts with the request schema of shared/schema.ts.           *)
(*                                                                         *)
(* One handler invocation is a sequential process with a program counter;  *)
(* it suspends at the two awaits (transporter.verify, transporter.sendMail)*)
(* and the mail service resolves each of them with success or failure.     *)
(* The caller may drop the connection at any time.  ServerResponse.write   *)
(* and ServerResponse.end do not throw for string chunks, whether or not   *)
(* the socket is still there, so in Spec the handler's outer catch block   *)
(* is not entered.                                                         *)
(***************************************************************************)
EXTENDS Integers, Sequences, FiniteSets, TLC

\* Bounds of the model.
MaxRecipients == 3

\* Request slots.  Spec runs one request, in slot 1.
Req == {1, 2}

(***************************************************************************)
(* JavaScript values, tagged by type.                                      *)
(***************************************************************************)
Undef == [t |-> "undefined"]
Str(s) == [t |-> "string", s |-> s]
\* a string kept character by character (the message bodies)
Txt(cs) == [t |-> "string", cs |-> cs]
Num(n) == [t |-> "number", n |-> n]
Arr(a) == [t |-> "array", a |-> a]
Obj(o) == [t |-> "object", o |-> o]

\* A multipart text field holding JSON: the text of a value, a text that is
\* not JSON, the empty text.  An absent field is Undef.
JsonText(v) == [t |-> "jsontext", val |-> v]
BadText == [t |-> "badtext"]
EmptyText == [t |-> "emptytext"]

\* JSON.parse(x) throws a SyntaxError unless x is the text of a JSON value
\* (JSON.parse(undefined) and JSON.parse("") throw).
JSONparseThrows(x) == x.t # "jsontext"
JSONparse(x) == x.val
\* the truthiness test of `ccStr ? ... : undefined`
Truthy(x) == x.t \in {"jsontext", "badtext"}

IsString(v) == v.t = "string"
IsEmptyString(v) == IF "cs" \in DOMAIN v THEN v.cs = <<>> ELSE v.s = ""

(***************************************************************************)
(* The inputs the model draws from.                                        *)
(***************************************************************************)
WellFormedAddresses == {"a@x.com", "b@x.com", "c@x.com", "d@x.com",
                        "crmsupport@legacylifespaces.com", "other@sender.org"}
RecipientPool == {Str("a@x.com"), Str("b@x.com")}

HtmlHi == <<"<", "p", ">", "H", "i", "<", "/", "p", ">">>
PlainHi == <<"H", "i">>

ConfigObj(u, p, h, po, f) ==
    Obj([username |-> u, password |-> p, host |-> h, port |-> po, fromEmail |-> f])

SmtpConfigTexts ==
    { Undef, BadText,
      JsonText(ConfigObj(Str("user"), Str("secret"), Undef, Undef, Undef)),
      JsonText(ConfigObj(Str("user"), Str("secret"), Str("smtp.zeptomail.in"),
                         Num(587), Str("other@sender.org"))),
      JsonText(ConfigObj(Str(""), Str("secret"), Undef, Undef, Undef)),
      JsonText(ConfigObj(Str("user"), Undef, Undef, Undef, Str("not-an-address"))) }

SeqsUpTo(S, n) == UNION { [1..k -> S] : k \in 0..n }

\* the recipients field: not JSON, JSON but no array, arrays of addresses
\* (the empty one and ones with repeated addresses included), and arrays
\* holding a string that is no address
RecipientsTexts ==
    { BadText, JsonText(Str("a@x.com")),
      JsonText(Arr(<< Str("not-an-address") >>)),
      JsonText(Arr(<< Str("a@x.com"), Str("not-an-address") >>)) }
    \cup { JsonText(Arr(a)) : a \in SeqsUpTo(RecipientPool, MaxRecipients) }

SubjectFields == { Str(""), Str("Hello") }
HtmlBodyFields == { Txt(<<>>), Txt(HtmlHi) }
TextBodyFields == { Undef, Txt(PlainHi) }
CcTexts == { Undef, BadText, JsonText(Arr(<<Str("c@x.com")>>)),
             JsonText(Arr(<<Str("not-an-address")>>)) }
\* bcc as the empty text: falsy, so never parsed
BccTexts == { EmptyText, JsonText(Arr(<<Str("d@x.com")>>)) }

File(name, mime) == [originalname |-> name, mimetype |-> mime, buffer |-> name]
PdfFile == File("report.pdf", "application/pdf")
PngFile == File("photo.png", "image/png")
ZipFile == File("tool.zip", "application/zip")
\* req.files: no upload, allowed uploads in both orders, and uploads with a
\* file of a type that is not allowed
FileLists ==
    { << >>, << PdfFile >>, << PdfFile, PngFile >>, << PngFile, PdfFile >>,
      << ZipFile >>, << PdfFile, ZipFile >> }

\* req.body and req.files of one inbound request
Requests ==
    [ smtpConfig : SmtpConfigTexts, recipients : RecipientsTexts,
      subject : SubjectFields, htmlBody : HtmlBodyFields,
      textBody : TextBodyFields, cc : CcTexts, bcc : BccTexts,
      files : FileLists ]

\* what the mail service may answer to a sendMail call that fails
SendErrors == { [isError |-> TRUE, message |-> "550 mailbox unavailable"],
                [isError |-> FALSE, message |-> "" ] }

(***************************************************************************)
(* shared/schema.ts: the zod schemas.  Each parser returns the issues it   *)
(* found (all of them, in schema order) and the parsed data.               *)
(***************************************************************************)
Issue(path, message) == [path |-> path, message |-> message]

\* z.string().email()
IsEmail(v) == IsString(v) /\ "s" \in DOMAIN v /\ v.s \in WellFormedAddresses

\* z.string() without the min(1): the empty string passes
RequiredStringIssuesAllowsEmpty(v, path, message) ==
    IF v.t = "undefined" THEN << Issue(path, "Required") >>
    ELSE IF ~IsString(v) THEN << Issue(path, "Expected string") >>
    ELSE << >>

\* z.string().min(1, message)
RequiredStringIssues(v, path, message) ==
    IF v.t = "undefined" THEN << Issue(path, "Required") >>
    ELSE IF ~IsString(v) THEN << Issue(path, "Expected string") >>
    ELSE IF IsEmptyString(v) THEN << Issue(path, message) >>
    ELSE << >>

\* z.string().default(d), z.number().default(d)
DefaultIssues(v, type, path) ==
    IF v.t = "undefined" \/ v.t = type THEN << >>
    ELSE << Issue(path, "Expected " \o type) >>

\* z.string().email().default(d)
DefaultEmailIssues(v, path) ==
    IF v.t = "undefined" \/ IsEmail(v) THEN << >>
    ELSE IF ~IsString(v) THEN << Issue(path, "Expected string") >>
    ELSE << Issue(path, "Invalid email") >>

smtpConfigIssues(v) ==
    IF v.t # "object" THEN << Issue(<<"smtpConfig">>, "Expected object") >>
    ELSE RequiredStringIssues(v.o.username, <<"smtpConfig", "username">>,
                              "Username is required")
         \o RequiredStringIssues(v.o.password, <<"smtpConfig", "password">>,
                                 "Password is required")
         \o DefaultIssues(v.o.host, "string", <<"smtpConfig", "host">>)
         \o DefaultIssues(v.o.port, "number", <<"smtpConfig", "port">>)
         \o DefaultEmailIssues(v.o.fromEmail, <<"smtpConfig", "fromEmail">>)

smtpConfigData(v) ==
    [ username |-> v.o.username.s,
      password |-> v.o.password.s,
      host |-> IF v.o.host.t = "undefined" THEN "smtp.zeptomail.in" ELSE v.o.host.s,
      port |-> IF v.o.port.t = "undefined" THEN 587 ELSE v.o.port.n,
      fromEmail |-> IF v.o.fromEmail.t = "undefined"
                    THEN "crmsupport@legacylifespaces.com" ELSE v.o.fromEmail.s ]

RECURSIVE EmailElementIssues(_, _, _)
\* the element issues of z.array(z.string().email()), from index i on
EmailElementIssues(a, i, field) ==
    IF i > Len(a) THEN << >>
    ELSE (IF IsEmail(a[i]) THEN << >>
          ELSE << Issue(<<field, ToString(i - 1)>>, "Invalid email") >>)
         \o EmailElementIssues(a, i + 1, field)

\* z.array(z.string().email()).min(1, "At least one recipient is required")
recipientsIssues(v) ==
    IF v.t = "undefined" THEN << Issue(<<"recipients">>, "Required") >>
    ELSE IF v.t # "array" THEN << Issue(<<"recipients">>, "Expected array") >>
    ELSE (IF Len(v.a) < 1
          THEN << Issue(<<"recipients">>, "At least one recipient is required") >>
          ELSE << >>)
         \o EmailElementIssues(v.a, 1, "recipients")

\* z.array(z.string().email()).optional()
OptionalEmailsIssues(v, field) ==
    IF v.t = "undefined" THEN << >>
    ELSE IF v.t # "array" THEN << Issue(<<field>>, "Expected array") >>
    ELSE EmailElementIssues(v.a, 1, field)

\* z.string().optional()
OptionalStringIssues(v, path) ==
    IF v.t = "undefined" \/ IsString(v) THEN << >>
    ELSE << Issue(path, "Expected string") >>

Strings(a) == [ k \in 1..Len(a) |-> a[k].s ]

\* sendEmailRequestSchema.safeParse(requestData).error.errors
sendEmailRequestIssues(d) ==
    smtpConfigIssues(d.smtpConfig)
    \o recipientsIssues(d.recipients)
    \o RequiredStringIssues(d.subject, <<"subject">>, "Subject is required")
    \o RequiredStringIssues(d.htmlBody, <<"htmlBody">>, "Email body is required")
    \o OptionalStringIssues(d.textBody, <<"textBody">>)
    \o OptionalEmailsIssues(d.cc, "cc")
    \o OptionalEmailsIssues(d.bcc, "bcc")

\* sendEmailRequestSchema.safeParse(requestData).data, when there is no issue
sendEmailRequestData(d) ==
    [ smtpConfig |-> smtpConfigData(d.smtpConfig),
      recipients |-> Strings(d.recipients.a),
      subject |-> d.subject.s,
      htmlBody |-> d.htmlBody.cs,
      textBody |-> d.textBody,
      cc |-> IF d.cc.t = "undefined" THEN Undef ELSE Arr(Strings(d.cc.a)),
      bcc |-> IF d.bcc.t = "undefined" THEN Undef ELSE Arr(Strings(d.bcc.a)) ]

(***************************************************************************)
(* server/routes.ts: the state of the handler, its response and its mail   *)
(* transport, per request.                                                 *)
(***************************************************************************)
VARIABLES req, hnd, res, mail, connected, cli

vars == <<req, hnd, res, mail, connected, cli>>

\* no client is modelled: the requests come from anywhere
NoClient == [none |-> TRUE]

NoRequest == [none |-> TRUE]
NoData == [none |-> TRUE]

allowedFileTypes ==
    { "application/pdf", "image/jpeg", "image/png", "image/gif",
      "application/msword",
      "application/vnd.openxmlformats-officedocument.wordprocessingml.document",
      "application/vnd.ms-excel",
      "application/vnd.openxmlformats-officedocument.spreadsheetml.sheet",
      "text/plain", "text/csv" }

\* the locals of one invocation of the handler
NewHandler(active) ==
    [ pc |-> IF active THEN "start" ELSE "idle",
      sseStarted |-> FALSE,
      requestData |-> NoData,
      validatedData |-> NoData,
      attachments |-> << >>,
      results |-> << >>,
      totalSent |-> 0,
      totalFailed |-> 0,
      i |-> 0 ]

\* the ServerResponse: status code, headers set, JSON bodies sent, the units
\* written to the event stream, and whether the response was ended
NewResponse ==
    [ statusCode |-> 200, headers |-> {}, json |-> << >>, stream |-> << >>,
      ended |-> FALSE ]

\* what happened between the handler and nodemailer for this request, in the
\* order it happened: the calls made (createTransport, verify, sendMail)
\* and the answers of the mail service to verify and sendMail
NewMail == [ log |-> << >> ]

Answer(op, ok) == [ op |-> "answer", of |-> op, ok |-> ok ]
\* sendMail rejected with error
Rejection(error) ==
    [ op |-> "answer", of |-> "sendMail", ok |-> FALSE, error |-> error ]

Calls(log, op) == SelectSeq(log, LAMBDA e : e.op = op)
Answers(log, op) == SelectSeq(log, LAMBDA e : e.op = "answer" /\ e.of = op)

\* the calls of verify and sendMail that have not been answered yet
Inflight(log) ==
    Len(Calls(log, "verify")) + Len(Calls(log, "sendMail"))
    - Len(SelectSeq(log, LAMBDA e : e.op = "answer"))

\* res.status(code).json(body): sends the body and ends the response
RespondJson(rs, code, body) ==
    [ rs EXCEPT !.statusCode = code, !.json = Append(@, body), !.ended = TRUE ]

\* res.setHeader(name, value)
SetHeader(rs, name, value) ==
    [ rs EXCEPT !.headers = { h \in @ : h[1] # name } \cup { <<name, value>> } ]

\* res.write(`data: ${JSON.stringify(unit)}\n\n`); a write after end is dropped
Write(rs, unit) ==
    IF rs.ended THEN rs ELSE [ rs EXCEPT !.stream = Append(@, unit) ]

\* res.end()
End(rs) == [ rs EXCEPT !.ended = TRUE ]

\* htmlBody.replace(/<[^>]*>/g, ""): drops every "<", the characters up to
\* the next ">", and that ">"; a "<" with no ">" after it stays
RECURSIVE StripTags(_)
StripTags(cs) ==
    IF cs = << >> THEN << >>
    ELSE IF Head(cs) = "<" /\ \E k \in 2..Len(cs) : cs[k] = ">"
         THEN LET k == CHOOSE j \in 2..Len(cs) :
                           cs[j] = ">" /\ \A m \in 2..(j - 1) : cs[m] # ">"
              IN StripTags(SubSeq(cs, k + 1, Len(cs)))
         ELSE << Head(cs) >> \o StripTags(Tail(cs))

\* validatedData.textBody || <stripped htmlBody>
TextOf(d) ==
    IF d.textBody.t = "string" /\ ~IsEmptyString(d.textBody)
    THEN d.textBody.cs
    ELSE StripTags(d.htmlBody)

\* mailOptions attaching the files to the message of the first recipient only
mailOptionsAttachesOnce(d, recipient, atts) ==
    [ from |-> d.smtpConfig.fromEmail,
      to |-> recipient,
      subject |-> d.subject,
      html |-> d.htmlBody,
      text |-> TextOf(d),
      cc |-> d.cc,
      bcc |-> d.bcc,
      attachments |-> IF recipient = d.recipients[1] THEN atts ELSE << >> ]

\* lines 123-132
mailOptions(d, recipient, atts) ==
    [ from |-> d.smtpConfig.fromEmail,
      to |-> recipient,
      subject |-> d.subject,
      html |-> d.htmlBody,
      text |-> TextOf(d),
      cc |-> d.cc,
      bcc |-> d.bcc,
      attachments |-> atts ]

Init ==
    /\ \E q \in Requests : req = [ r \in Req |-> IF r = 1 THEN q ELSE NoRequest ]
    /\ hnd = [ r \in Req |-> NewHandler(req[r] # NoRequest) ]
    /\ res = [ r \in Req |-> NewResponse ]
    /\ mail = [ r \in Req |-> NewMail ]
    /\ connected = [ r \in Req |-> [ up |-> req[r] # NoRequest, delivered |-> 0 ] ]
    /\ cli = NoClient

\* lines 32-36: one of the four JSON.parse calls throws
BodyParseThrows(b) ==
    \/ JSONparseThrows(b.smtpConfig)
    \/ JSONparseThrows(b.recipients)
    \/ (Truthy(b.cc) /\ JSONparseThrows(b.cc))
    \/ (Truthy(b.bcc) /\ JSONparseThrows(b.bcc))

\* lines 41-49: requestData
RequestDataOf(b) ==
    [ smtpConfig |-> JSONparse(b.smtpConfig),
      recipients |-> JSONparse(b.recipients),
      subject |-> b.subject,
      htmlBody |-> b.htmlBody,
      textBody |-> b.textBody,
      cc |-> IF Truthy(b.cc) THEN JSONparse(b.cc) ELSE Undef,
      bcc |-> IF Truthy(b.bcc) THEN JSONparse(b.bcc) ELSE Undef ]

\* lines 20-49: read the body fields and JSON.parse four of them
ParseBody(r) ==
    /\ hnd[r].pc = "start"
    /\ IF BodyParseThrows(req[r])
       THEN /\ res' = [ res EXCEPT ![r] =
                          RespondJson(@, 400,
                              [message |-> "Invalid JSON data in request"]) ]
            /\ hnd' = [ hnd EXCEPT ![r].pc = "done" ]
       ELSE /\ hnd' = [ hnd EXCEPT ![r].pc = "validate",
                                   ![r].requestData = RequestDataOf(req[r]) ]
            /\ UNCHANGED res
    /\ UNCHANGED <<cli, req, mail, connected>>

\* lines 51-60: sendEmailRequestSchema.safeParse
Validate(r) ==
    /\ hnd[r].pc = "validate"
    /\ LET errors == sendEmailRequestIssues(hnd[r].requestData)
       IN IF errors # << >>
          THEN /\ res' = [ res EXCEPT ![r] =
                             RespondJson(@, 400,
                                 [ message |-> "Invalid request data",
                                   errors |-> errors ]) ]
               /\ hnd' = [ hnd EXCEPT ![r].pc = "done" ]
          ELSE /\ hnd' = [ hnd EXCEPT
                     ![r].pc = "files",
                     ![r].validatedData =
                         sendEmailRequestData(hnd[r].requestData) ]
               /\ UNCHANGED res
    /\ UNCHANGED <<cli, req, mail, connected>>

\* CheckFiles leaving out the files of a type that is not allowed, instead
\* of rejecting the request
CheckFilesSkipsDisallowed(r) ==
    /\ hnd[r].pc = "files"
    /\ LET files == SelectSeq(req[r].files,
                              LAMBDA f : f.mimetype \in allowedFileTypes)
       IN hnd' = [ hnd EXCEPT
              ![r].pc = "transport",
              ![r].attachments =
                  [ k \in 1..Len(files) |->
                      [ filename |-> files[k].originalname,
                        content |-> files[k].buffer ] ] ]
    /\ UNCHANGED <<cli, req, res, mail, connected>>

\* lines 62-89: every uploaded file must have an allowed type
CheckFiles(r) ==
    /\ hnd[r].pc = "files"
    /\ LET files == req[r].files
           bad == { k \in 1..Len(files) : files[k].mimetype \notin allowedFileTypes }
       IN IF bad # {}
          THEN LET k == CHOOSE j \in bad : \A m \in bad : j <= m
               IN /\ res' = [ res EXCEPT ![r] =
                                RespondJson(@, 400,
                                    [ message |-> "File type is not allowed",
                                      mimetype |-> files[k].mimetype,
                                      originalname |-> files[k].originalname ]) ]
                  /\ hnd' = [ hnd EXCEPT ![r].pc = "done" ]
          ELSE /\ hnd' = [ hnd EXCEPT
                     ![r].pc = "transport",
                     ![r].attachments =
                         [ k \in 1..Len(files) |->
                             [ filename |-> files[k].originalname,
                               content |-> files[k].buffer ] ] ]
               /\ UNCHANGED res
    /\ UNCHANGED <<cli, req, mail, connected>>

\* lines 91-102: nodemailer.createTransport, then the call of verify
CreateTransport(r) ==
    /\ hnd[r].pc = "transport"
    /\ LET c == hnd[r].validatedData.smtpConfig
       IN mail' = [ mail EXCEPT
              ![r].log = @ \o << [ op |-> "createTransport",
                                   host |-> c.host, port |-> c.port,
                                   secure |-> FALSE,
                                   user |-> c.username, pass |-> c.password ],
                                 [ op |-> "verify" ] >> ]
    /\ hnd' = [ hnd EXCEPT ![r].pc = "verify" ]
    /\ UNCHANGED <<cli, req, res, connected>>

\* VerifyFails without the return: the error is logged and the batch goes on
VerifyFailsContinues(r) ==
    /\ hnd[r].pc = "verify"
    /\ mail' = [ mail EXCEPT ![r].log = Append(@, Answer("verify", FALSE)) ]
    /\ res' = [ res EXCEPT ![r] =
                  SetHeader(@, "Content-Type", "text/event-stream") ]
    /\ hnd' = [ hnd EXCEPT ![r].pc = "loop", ![r].sseStarted = TRUE, ![r].i = 1 ]
    /\ UNCHANGED <<cli, req, connected>>

\* VerifyFails leaving the request without a response
VerifyFailsNoResponse(r) ==
    /\ hnd[r].pc = "verify"
    /\ mail' = [ mail EXCEPT ![r].log = Append(@, Answer("verify", FALSE)) ]
    /\ hnd' = [ hnd EXCEPT ![r].pc = "done" ]
    /\ UNCHANGED <<cli, req, res, connected>>

\* lines 103-108: verify rejected
VerifyFails(r) ==
    /\ hnd[r].pc = "verify"
    /\ mail' = [ mail EXCEPT ![r].log = Append(@, Answer("verify", FALSE)) ]
    /\ res' = [ res EXCEPT ![r] =
                  RespondJson(@, 401,
                      [ message |-> "SMTP authentication failed. Please check your credentials." ]) ]
    /\ hnd' = [ hnd EXCEPT ![r].pc = "done" ]
    /\ UNCHANGED <<cli, req, connected>>

\* lines 110-117: verify resolved; the stream is opened
VerifyOk(r) ==
    /\ hnd[r].pc = "verify"
    /\ mail' = [ mail EXCEPT ![r].log = Append(@, Answer("verify", TRUE)) ]
    /\ res' = [ res EXCEPT ![r] =
                  SetHeader(SetHeader(SetHeader(@,
                      "Content-Type", "text/event-stream"),
                      "Cache-Control", "no-cache"),
                      "Connection", "keep-alive") ]
    /\ hnd' = [ hnd EXCEPT ![r].pc = "loop", ![r].sseStarted = TRUE,
                           ![r].results = << >>, ![r].totalSent = 0,
                           ![r].totalFailed = 0, ![r].i = 1 ]
    /\ UNCHANGED <<cli, req, connected>>

\* HasNext with the loop stopping one recipient early
HasNextSkipsLast(r) ==
    /\ hnd[r].pc = "loop"
    /\ hnd[r].i < Len(hnd[r].validatedData.recipients)

\* line 119: the for-of loop has another recipient
HasNext(r) ==
    /\ hnd[r].pc = "loop"
    /\ hnd[r].i <= Len(hnd[r].validatedData.recipients)

\* BeginSend with sendMail not awaited: the call is made and the recipient
\* is recorded as sent at once
BeginSendNoAwait(r) ==
    /\ HasNext(r)
    /\ LET d == hnd[r].validatedData
           recipient == d.recipients[hnd[r].i]
           sentStatus == [ email |-> recipient, status |-> "sent" ]
       IN /\ res' = [ res EXCEPT ![r] =
                        Write(Write(@, [ email |-> recipient, status |-> "sending" ]),
                              sentStatus) ]
          /\ mail' = [ mail EXCEPT
                 ![r].log = Append(@, [ op |-> "sendMail",
                     options |-> mailOptions(d, recipient, hnd[r].attachments) ]) ]
          /\ hnd' = [ hnd EXCEPT ![r].results = Append(@, sentStatus),
                                 ![r].totalSent = @ + 1,
                                 ![r].i = @ + 1 ]
    /\ UNCHANGED <<cli, req, connected>>

\* BeginSend verifying the credentials again before every message
BeginSendReverifies(r) ==
    /\ HasNext(r)
    /\ LET d == hnd[r].validatedData
           recipient == d.recipients[hnd[r].i]
           after == Write(res[r], [ email |-> recipient, status |-> "sending" ])
       IN /\ res' = [ res EXCEPT ![r] = after ]
          /\ mail' = [ mail EXCEPT
                 ![r].log = @ \o << [ op |-> "verify" ], Answer("verify", TRUE),
                     [ op |-> "sendMail",
                       options |-> mailOptions(d, recipient, hnd[r].attachments),
                       written |-> Len(after.stream) ] >> ]
    /\ hnd' = [ hnd EXCEPT ![r].pc = "sending" ]
    /\ UNCHANGED <<cli, req, connected>>

\* BeginSend with the call of sendMail made before the "sending" unit is
\* written
BeginSendCallsFirst(r) ==
    /\ HasNext(r)
    /\ LET d == hnd[r].validatedData
           recipient == d.recipients[hnd[r].i]
       IN /\ mail' = [ mail EXCEPT
                 ![r].log = Append(@, [ op |-> "sendMail",
                     options |-> mailOptions(d, recipient, hnd[r].attachments),
                     written |-> Len(res[r].stream) ]) ]
          /\ res' = [ res EXCEPT ![r] =
                        Write(@, [ email |-> recipient, status |-> "sending" ]) ]
    /\ hnd' = [ hnd EXCEPT ![r].pc = "sending" ]
    /\ UNCHANGED <<cli, req, connected>>

\* lines 119-134: the "sending" unit, then the call of sendMail; the log
\* keeps, with the call, how many units were on the stream when it was made
BeginSend(r) ==
    /\ HasNext(r)
    /\ LET d == hnd[r].validatedData
           recipient == d.recipients[hnd[r].i]
           after == Write(res[r], [ email |-> recipient, status |-> "sending" ])
       IN /\ res' = [ res EXCEPT ![r] = after ]
          /\ mail' = [ mail EXCEPT
                 ![r].log = Append(@, [ op |-> "sendMail",
                     options |-> mailOptions(d, recipient, hnd[r].attachments),
                     written |-> Len(after.stream) ]) ]
    /\ hnd' = [ hnd EXCEPT ![r].pc = "sending" ]
    /\ UNCHANGED <<cli, req, connected>>

\* SendOk with totalSent shared by the requests in progress
SendOkSharedCounter(r) ==
    /\ hnd[r].pc = "sending"
    /\ LET recipient == hnd[r].validatedData.recipients[hnd[r].i]
           sentStatus == [ email |-> recipient, status |-> "sent" ]
       IN /\ hnd' = [ q \in Req |->
                 IF q = r
                 THEN [ hnd[q] EXCEPT !.results = Append(@, sentStatus),
                                      !.totalSent = @ + 1,
                                      !.i = @ + 1,
                                      !.pc = "loop" ]
                 ELSE [ hnd[q] EXCEPT !.totalSent = @ + 1 ] ]
          /\ res' = [ res EXCEPT ![r] = Write(@, sentStatus) ]
    /\ mail' = [ mail EXCEPT ![r].log = Append(@, Answer("sendMail", TRUE)) ]
    /\ UNCHANGED <<cli, req, connected>>

\* SendOk counting the copies to the cc addresses as sent too
SendOkCountsCopies(r) ==
    /\ hnd[r].pc = "sending"
    /\ LET d == hnd[r].validatedData
           recipient == d.recipients[hnd[r].i]
           sentStatus == [ email |-> recipient, status |-> "sent" ]
           copies == IF d.cc = Undef THEN 0 ELSE Len(d.cc.a)
       IN /\ hnd' = [ hnd EXCEPT ![r].results = Append(@, sentStatus),
                                 ![r].totalSent = @ + 1 + copies,
                                 ![r].i = @ + 1,
                                 ![r].pc = "loop" ]
          /\ res' = [ res EXCEPT ![r] = Write(@, sentStatus) ]
    /\ mail' = [ mail EXCEPT ![r].log = Append(@, Answer("sendMail", TRUE)) ]
    /\ UNCHANGED <<cli, req, connected>>

\* SendOk forgetting results.push(sentStatus)
SendOkNoPush(r) ==
    /\ hnd[r].pc = "sending"
    /\ LET recipient == hnd[r].validatedData.recipients[hnd[r].i]
           sentStatus == [ email |-> recipient, status |-> "sent" ]
       IN /\ hnd' = [ hnd EXCEPT ![r].totalSent = @ + 1,
                                 ![r].i = @ + 1,
                                 ![r].pc = "loop" ]
          /\ res' = [ res EXCEPT ![r] = Write(@, sentStatus) ]
    /\ mail' = [ mail EXCEPT ![r].log = Append(@, Answer("sendMail", TRUE)) ]
    /\ UNCHANGED <<cli, req, connected>>

\* lines 136-143: sendMail resolved
SendOk(r) ==
    /\ hnd[r].pc = "sending"
    /\ LET recipient == hnd[r].validatedData.recipients[hnd[r].i]
           sentStatus == [ email |-> recipient, status |-> "sent" ]
       IN /\ hnd' = [ hnd EXCEPT ![r].results = Append(@, sentStatus),
                                 ![r].totalSent = @ + 1,
                                 ![r].i = @ + 1,
                                 ![r].pc = "loop" ]
          /\ res' = [ res EXCEPT ![r] = Write(@, sentStatus) ]
    /\ mail' = [ mail EXCEPT ![r].log = Append(@, Answer("sendMail", TRUE)) ]
    /\ UNCHANGED <<cli, req, connected>>

\* SendFails treating the rejection as fatal: the "error" unit and the end
\* of the response
SendFailsAborts(r, error) ==
    /\ hnd[r].pc = "sending"
    /\ res' = [ res EXCEPT ![r] =
                  End(Write(@, [ type |-> "error",
                                 message |-> IF error.isError THEN error.message
                                             ELSE "Failed to send emails" ])) ]
    /\ hnd' = [ hnd EXCEPT ![r].pc = "done" ]
    /\ mail' = [ mail EXCEPT ![r].log = Append(@, Rejection(error)) ]
    /\ UNCHANGED <<cli, req, connected>>

\* SendFails forgetting to count the failure
SendFailsNoCount(r, error) ==
    /\ hnd[r].pc = "sending"
    /\ LET recipient == hnd[r].validatedData.recipients[hnd[r].i]
           failedStatus ==
               [ email |-> recipient, status |-> "failed",
                 error |-> IF error.isError THEN error.message
                           ELSE "Unknown error" ]
       IN /\ hnd' = [ hnd EXCEPT ![r].results = Append(@, failedStatus),
                                 ![r].i = @ + 1,
                                 ![r].pc = "loop" ]
          /\ res' = [ res EXCEPT ![r] = Write(@, failedStatus) ]
    /\ mail' = [ mail EXCEPT ![r].log = Append(@, Rejection(error)) ]
    /\ UNCHANGED <<cli, req, connected>>

\* SendFails leaving the loop at the first failure
SendFailsBreak(r, error) ==
    /\ hnd[r].pc = "sending"
    /\ LET recipient == hnd[r].validatedData.recipients[hnd[r].i]
           failedStatus ==
               [ email |-> recipient, status |-> "failed",
                 error |-> IF error.isError THEN error.message
                           ELSE "Unknown error" ]
       IN /\ hnd' = [ hnd EXCEPT ![r].results = Append(@, failedStatus),
                                 ![r].totalFailed = @ + 1,
                                 ![r].i = Len(hnd[r].validatedData.recipients) + 1,
                                 ![r].pc = "loop" ]
          /\ res' = [ res EXCEPT ![r] = Write(@, failedStatus) ]
    /\ mail' = [ mail EXCEPT ![r].log = Append(@, Rejection(error)) ]
    /\ UNCHANGED <<cli, req, connected>>

\* lines 144-155: sendMail rejected with error
SendFails(r, error) ==
    /\ hnd[r].pc = "sending"
    /\ LET recipient == hnd[r].validatedData.recipients[hnd[r].i]
           failedStatus ==
               [ email |-> recipient, status |-> "failed",
                 error |-> IF error.isError THEN error.message
                           ELSE "Unknown error" ]
       IN /\ hnd' = [ hnd EXCEPT ![r].results = Append(@, failedStatus),
                                 ![r].totalFailed = @ + 1,
                                 ![r].i = @ + 1,
                                 ![r].pc = "loop" ]
          /\ res' = [ res EXCEPT ![r] = Write(@, failedStatus) ]
    /\ mail' = [ mail EXCEPT ![r].log = Append(@, Rejection(error)) ]
    /\ UNCHANGED <<cli, req, connected>>

\* Complete without the call of res.end()
CompleteNoEnd(r) ==
    /\ hnd[r].pc = "loop"
    /\ ~HasNext(r)
    /\ LET response == [ results |-> hnd[r].results,
                         totalSent |-> hnd[r].totalSent,
                         totalFailed |-> hnd[r].totalFailed ]
       IN res' = [ res EXCEPT ![r] =
                     Write(@, [ type |-> "complete", data |-> response ]) ]
    /\ hnd' = [ hnd EXCEPT ![r].pc = "done" ]
    /\ UNCHANGED <<cli, req, mail, connected>>

\* lines 158-165: the summary, then the end of the response
Complete(r) ==
    /\ hnd[r].pc = "loop"
    /\ ~HasNext(r)
    /\ LET response == [ results |-> hnd[r].results,
                         totalSent |-> hnd[r].totalSent,
                         totalFailed |-> hnd[r].totalFailed ]
       IN res' = [ res EXCEPT ![r] =
                     End(Write(@, [ type |-> "complete", data |-> response ])) ]
    /\ hnd' = [ hnd EXCEPT ![r].pc = "done" ]
    /\ UNCHANGED <<cli, req, mail, connected>>

\* The caller drops the connection while the response is still open.  The
\* handler runs to completion between its awaits, so the server gets to see
\* the closed socket only while the handler is suspended at one of them.
\* connected[r] keeps whether the connection is up and, once it is not, how
\* many units had been written when it went away; no line of the handler
\* reads it (there is no listener for the close of the request).
ClientDisconnect(r) ==
    /\ hnd[r].pc \in {"verify", "sending"}
    /\ connected[r].up
    /\ ~res[r].ended
    /\ connected' = [ connected EXCEPT
           ![r] = [ up |-> FALSE, delivered |-> Len(res[r].stream) ] ]
    /\ UNCHANGED <<cli, req, hnd, res, mail>>

Next ==
    \/ \E r \in Req : ParseBody(r)
    \/ \E r \in Req : Validate(r)
    \/ \E r \in Req : CheckFiles(r)
    \/ \E r \in Req : CreateTransport(r)
    \/ \E r \in Req : VerifyFails(r)
    \/ \E r \in Req : VerifyOk(r)
    \/ \E r \in Req : BeginSend(r)
    \/ \E r \in Req : SendOk(r)
    \/ \E r \in Req : \E error \in SendErrors : SendFails(r, error)
    \/ \E r \in Req : Complete(r)
    \/ \E r \in Req : ClientDisconnect(r)

Spec == Init /\ [][Next]_vars

(***************************************************************************)
(* The handler when a write to the response throws.  Spec takes res.write  *)
(* as it behaves on a healthy response; SpecThrow adds the executions in   *)
(* which one of the four res.write calls of the loop (lines 121, 143, 154, *)
(* 164) or the call of createTransport throws, which is what the catch at  *)
(* lines 166-187 is written for.  The steps of Spec are steps of SpecThrow *)
(* too; its requests are those of Spec that differ in what a throwing     *)
(* call can depend on: valid or not, with which recipients.                *)
(***************************************************************************)

ThrowRequests ==
    [ smtpConfig : { Undef,
          JsonText(ConfigObj(Str("user"), Str("secret"), Undef, Undef, Undef)) },
      recipients : { BadText }
          \cup { JsonText(Arr(a)) : a \in SeqsUpTo(RecipientPool, MaxRecipients) },
      subject : SubjectFields, htmlBody : { Txt(HtmlHi) },
      textBody : { Undef }, cc : { Undef }, bcc : { EmptyText },
      files : { << >>, << ZipFile >> } ]

InitThrow ==
    /\ \E q \in ThrowRequests :
           req = [ r \in Req |-> IF r = 1 THEN q ELSE NoRequest ]
    /\ hnd = [ r \in Req |-> NewHandler(req[r] # NoRequest) ]
    /\ res = [ r \in Req |-> NewResponse ]
    /\ mail = [ r \in Req |-> NewMail ]
    /\ connected = [ r \in Req |-> [ up |-> req[r] # NoRequest, delivered |-> 0 ] ]
    /\ cli = NoClient

\* what a throwing call throws; nothing inside the try block throws a
\* ZodError (safeParse returns its result), so none is drawn
ThrownErrors == { [isError |-> TRUE, isZod |-> FALSE, message |-> "write EPIPE"],
                  [isError |-> FALSE, isZod |-> FALSE, message |-> ""] }

\* `error instanceof Error ? error.message : fallback`
MessageOf(error, fallback) == IF error.isError THEN error.message ELSE fallback

\* the outer catch answering with a JSON status whether or not the stream
\* was opened
OuterCatchIgnoresStream(rs, sseStarted, error, lost) ==
    RespondJson([ rs EXCEPT !.ended = FALSE ], 500,
                [ message |-> MessageOf(error, "Failed to send emails") ])

\* lines 166-187: the outer catch.  lost: the write of the "error" unit
\* throws as well, which leaves the catch block before res.end()
OuterCatch(rs, sseStarted, error, lost) ==
    IF sseStarted
    THEN IF lost THEN rs
         ELSE End(Write(rs, [ type |-> "error",
                              message |-> MessageOf(error, "Failed to send emails") ]))
    ELSE IF error.isZod
         THEN RespondJson(rs, 400, [ message |-> "Invalid request data",
                                     errors |-> error.message ])
         ELSE RespondJson(rs, 500,
                  [ message |-> MessageOf(error, "Failed to send emails") ])

\* lines 144-150: the failedStatus of the inner catch
FailedStatus(recipient, error) ==
    [ email |-> recipient, status |-> "failed",
      error |-> MessageOf(error, "Unknown error") ]

\* line 91: createTransport throws; the stream is not open yet
CreateTransportThrows(r, error) ==
    /\ hnd[r].pc = "transport"
    /\ res' = [ res EXCEPT ![r] = OuterCatch(@, hnd[r].sseStarted, error, FALSE) ]
    /\ hnd' = [ hnd EXCEPT ![r].pc = "done" ]
    /\ UNCHANGED <<cli, req, mail, connected>>

\* line 121: the write of the "sending" unit throws inside the try block;
\* sendMail is not called, the inner catch records a failure and writes it
\* (line 154); again: that write throws too and the outer catch runs
SendingWriteThrows(r, error, again, lost) ==
    /\ HasNext(r)
    /\ LET recipient == hnd[r].validatedData.recipients[hnd[r].i]
           failedStatus == FailedStatus(recipient, error)
       IN IF again
          THEN /\ hnd' = [ hnd EXCEPT ![r].results = Append(@, failedStatus),
                                      ![r].totalFailed = @ + 1,
                                      ![r].pc = "done" ]
               /\ res' = [ res EXCEPT ![r] =
                             OuterCatch(@, hnd[r].sseStarted, error, lost) ]
          ELSE /\ ~lost
               /\ hnd' = [ hnd EXCEPT ![r].results = Append(@, failedStatus),
                                      ![r].totalFailed = @ + 1,
                                      ![r].i = @ + 1 ]
               /\ res' = [ res EXCEPT ![r] = Write(@, failedStatus) ]
    /\ UNCHANGED <<cli, req, mail, connected>>

\* lines 134-143: sendMail resolved, the recipient is pushed and counted as
\* sent, and the write of the "sent" unit throws: the inner catch pushes and
\* counts the same recipient as failed
SentWriteThrows(r, error, again, lost) ==
    /\ hnd[r].pc = "sending"
    /\ LET recipient == hnd[r].validatedData.recipients[hnd[r].i]
           sentStatus == [ email |-> recipient, status |-> "sent" ]
           failedStatus == FailedStatus(recipient, error)
       IN IF again
          THEN /\ hnd' = [ hnd EXCEPT
                     ![r].results = Append(Append(@, sentStatus), failedStatus),
                     ![r].totalSent = @ + 1,
                     ![r].totalFailed = @ + 1,
                     ![r].pc = "done" ]
               /\ res' = [ res EXCEPT ![r] =
                             OuterCatch(@, hnd[r].sseStarted, error, lost) ]
          ELSE /\ ~lost
               /\ hnd' = [ hnd EXCEPT
                     ![r].results = Append(Append(@, sentStatus), failedStatus),
                     ![r].totalSent = @ + 1,
                     ![r].totalFailed = @ + 1,
                     ![r].i = @ + 1,
                     ![r].pc = "loop" ]
               /\ res' = [ res EXCEPT ![r] = Write(@, failedStatus) ]
    /\ mail' = [ mail EXCEPT ![r].log = Append(@, Answer("sendMail", TRUE)) ]
    /\ UNCHANGED <<cli, req, connected>>

\* lines 144-154: sendMail rejected and the write of the "failed" unit
\* throws out of the inner catch
FailedWriteThrows(r, sendError, error, lost) ==
    /\ hnd[r].pc = "sending"
    /\ LET recipient == hnd[r].validatedData.recipients[hnd[r].i]
       IN hnd' = [ hnd EXCEPT
              ![r].results = Append(@, FailedStatus(recipient, sendError)),
              ![r].totalFailed = @ + 1,
              ![r].pc = "done" ]
    /\ res' = [ res EXCEPT ![r] = OuterCatch(@, hnd[r].sseStarted, error, lost) ]
    /\ mail' = [ mail EXCEPT ![r].log = Append(@, Rejection(sendError)) ]
    /\ UNCHANGED <<cli, req, connected>>

\* line 164: the write of the "complete" unit throws
CompleteWriteThrows(r, error, lost) ==
    /\ hnd[r].pc = "loop"
    /\ ~HasNext(r)
    /\ res' = [ res EXCEPT ![r] = OuterCatch(@, hnd[r].sseStarted, error, lost) ]
    /\ hnd' = [ hnd EXCEPT ![r].pc = "done" ]
    /\ UNCHANGED <<cli, req, mail, connected>>

NextThrow ==
    \/ Next
    \/ \E r \in Req : \E error \in ThrownErrors : CreateTransportThrows(r, error)
    \/ \E r \in Req : \E error \in ThrownErrors : \E again, lost \in BOOLEAN :
           SendingWriteThrows(r, error, again, lost)
    \/ \E r \in Req : \E error \in ThrownErrors : \E again, lost \in BOOLEAN :
           SentWriteThrows(r, error, again, lost)
    \/ \E r \in Req : \E sendError \in SendErrors : \E error \in ThrownErrors :
           \E lost \in BOOLEAN : FailedWriteThrows(r, sendError, error, lost)
    \/ \E r \in Req : \E error \in ThrownErrors : \E lost \in BOOLEAN :
           CompleteWriteThrows(r, error, lost)

SpecThrow == InitThrow /\ [][NextThrow]_vars

(***************************************************************************)
(* Two requests in progress at once.  Express calls the handler once for   *)
(* each request; the invocations interleave at their awaits.  Each has its *)
(* own locals, response and transporter, which is why every variable is a  *)
(* function of the request.                                                *)
(***************************************************************************)
RequestOf(user, rcpts, files) ==
    [ smtpConfig |-> JsonText(ConfigObj(Str(user), Str("secret"), Undef, Undef, Undef)),
      recipients |-> JsonText(Arr(rcpts)),
      subject |-> Str("Hello"), htmlBody |-> Txt(HtmlHi), textBody |-> Undef,
      cc |-> Undef, bcc |-> EmptyText, files |-> files ]

FirstRequests ==
    { RequestOf("user", << Str("a@x.com"), Str("b@x.com") >>, << >>),
      RequestOf("user", << Str("a@x.com") >>, << ZipFile >>) }
SecondRequests ==
    { RequestOf("user2", << Str("c@x.com"), Str("d@x.com") >>, << PdfFile >>),
      RequestOf("user2", << Str("b@x.com"), Str("a@x.com") >>, << >>) }

InitTwo ==
    /\ \E q1 \in FirstRequests : \E q2 \in SecondRequests :
           req = [ r \in Req |-> IF r = 1 THEN q1 ELSE q2 ]
    /\ hnd = [ r \in Req |-> NewHandler(req[r] # NoRequest) ]
    /\ res = [ r \in Req |-> NewResponse ]
    /\ mail = [ r \in Req |-> NewMail ]
    /\ connected = [ r \in Req |-> [ up |-> req[r] # NoRequest, delivered |-> 0 ] ]
    /\ cli = NoClient

SpecTwo == InitTwo /\ [][Next]_vars

(***************************************************************************)
(* The handler when sendMail may also reject with an Error that has no     *)
(* message: the catch at line 144 takes any value.                         *)
(***************************************************************************)
SilentErrors == { [isError |-> TRUE, message |-> ""] }

NextAnyError ==
    \/ Next
    \/ \E r \in Req : \E error \in SilentErrors : SendFails(r, error)

SpecAnyError == InitThrow /\ [][NextAnyError]_vars

(***************************************************************************)
(* The upload middleware in front of the handler (lines 8-16): multer      *)
(* reads the multipart body into req.body and req.files and calls the      *)
(* handler, unless a file is larger than limits.fileSize or there are more *)
(* than maxCount files in the field "attachments"; then it passes a        *)
(* MulterError to the error handling of the application and the handler is *)
(* not called.                                                             *)
(***************************************************************************)
fileSize == 10 * 1024 * 1024
maxCount == 10

Sized(file, size) ==
    [ originalname |-> file.originalname, mimetype |-> file.mimetype,
      buffer |-> file.buffer, size |-> size ]
SmallPdf == Sized(PdfFile, 2048)
Repeat(file, n) == [ k \in 1..n |-> file ]

UploadLists ==
    { << >>, << SmallPdf >>, << Sized(PdfFile, fileSize + 1) >>,
      << SmallPdf, Sized(PngFile, fileSize + 1) >>,
      << Sized(ZipFile, 2048) >>, << SmallPdf, Sized(ZipFile, 2048) >>,
      Repeat(SmallPdf, maxCount), Repeat(SmallPdf, maxCount + 1) }

UploadRequests ==
    { RequestOf("user", rcpts, files) :
        rcpts \in { << Str("a@x.com") >>, << Str("a@x.com"), Str("b@x.com") >> },
        files \in UploadLists }

InitUpload ==
    /\ \E q \in UploadRequests :
           req = [ r \in Req |-> IF r = 1 THEN q ELSE NoRequest ]
    /\ hnd = [ r \in Req |-> IF req[r] # NoRequest
                             THEN [ NewHandler(TRUE) EXCEPT !.pc = "upload" ]
                             ELSE NewHandler(FALSE) ]
    /\ res = [ r \in Req |-> NewResponse ]
    /\ mail = [ r \in Req |-> NewMail ]
    /\ connected = [ r \in Req |-> [ up |-> req[r] # NoRequest, delivered |-> 0 ] ]
    /\ cli = NoClient

\* multer without its limits: every upload is handed to the handler
UploadUnlimited(r) ==
    /\ hnd[r].pc = "upload"
    /\ hnd' = [ hnd EXCEPT ![r].pc = "start" ]
    /\ UNCHANGED <<cli, req, res, mail, connected>>

\* lines 8-16: upload.array("attachments", 10) with limits.fileSize
Upload(r) ==
    /\ hnd[r].pc = "upload"
    /\ LET files == req[r].files
       IN IF \/ Len(files) > maxCount
             \/ \E k \in 1..Len(files) : files[k].size > fileSize
          THEN /\ res' = [ res EXCEPT ![r].statusCode = 500, ![r].ended = TRUE ]
               /\ hnd' = [ hnd EXCEPT ![r].pc = "done" ]
          ELSE /\ hnd' = [ hnd EXCEPT ![r].pc = "start" ]
               /\ UNCHANGED res
    /\ UNCHANGED <<cli, req, mail, connected>>

NextUpload ==
    \/ Next
    \/ \E r \in Req : Upload(r)

SpecUpload == InitUpload /\ [][NextUpload]_vars

(***************************************************************************)
(* Two requests with the same recipients, the first with cc, bcc and       *)
(* attachments, the second with none of them.                              *)
(***************************************************************************)
PairRecipients ==
    { << Str("a@x.com") >>, << Str("a@x.com"), Str("b@x.com") >> }

InitPair ==
    /\ \E rcpts \in PairRecipients :
           req = [ r \in Req |->
                     IF r = 1
                     THEN [ RequestOf("user", rcpts, << PdfFile, PngFile >>)
                              EXCEPT !.cc = JsonText(Arr(<< Str("c@x.com") >>)),
                                     !.bcc = JsonText(Arr(<< Str("d@x.com") >>)) ]
                     ELSE RequestOf("user", rcpts, << >>) ]
    /\ hnd = [ r \in Req |-> NewHandler(req[r] # NoRequest) ]
    /\ res = [ r \in Req |-> NewResponse ]
    /\ mail = [ r \in Req |-> NewMail ]
    /\ connected = [ r \in Req |-> [ up |-> req[r] # NoRequest, delivered |-> 0 ] ]
    /\ cli = NoClient

SpecPair == InitPair /\ [][Next]_vars

(***************************************************************************)
(* Progress.  The event loop runs the handler whenever it can continue,    *)
(* and every verify and sendMail call is taken to resolve, one way or the  *)
(* other; nothing is assumed of the caller.                                *)
(***************************************************************************)
HandlerStep(r) ==
    \/ ParseBody(r) \/ Validate(r) \/ CheckFiles(r) \/ CreateTransport(r)
    \/ BeginSend(r) \/ Complete(r)

ServiceAnswers(r) ==
    \/ VerifyFails(r) \/ VerifyOk(r) \/ SendOk(r)
    \/ \E error \in SendErrors : SendFails(r, error)

SpecLive ==
    /\ InitThrow
    /\ [][Next]_vars
    /\ \A r \in Req : WF_vars(HandlerStep(r)) /\ WF_vars(ServiceAnswers(r))

(***************************************************************************)
(* The units of the event stream (routes.ts lines 121, 136-139, 146-150,   *)
(* 164, 170-173) and what the claims read off a request.                   *)
(***************************************************************************)
IsStatusUnit(u) == "status" \in DOMAIN u
IsSending(u) == IsStatusUnit(u) /\ u.status = "sending"
IsTerminalStatus(u) == IsStatusUnit(u) /\ u.status \in {"sent", "failed"}
IsComplete(u) == "type" \in DOMAIN u /\ u.type = "complete"
IsErrorUnit(u) == "type" \in DOMAIN u /\ u.type = "error"
IsTerminalUnit(u) == IsComplete(u) \/ IsErrorUnit(u)

EmailsOf(units) == [ k \in 1..Len(units) |-> units[k].email ]

\* validatedData.recipients of a request that passed validation
Recipients(r) == hnd[r].validatedData.recipients

(***************************************************************************)
(* C1: a request that passed validation and verification, with N           *)
(* recipients, gets exactly N "sending" units and exactly N terminal units *)
(* ("sent" or "failed"), both in the order of the recipients of the        *)
(* request; while the batch runs, both are prefixes of that order.         *)
(***************************************************************************)
C1_UnitsFollowRecipients ==
    \A r \in Req : hnd[r].sseStarted =>
        LET sending == EmailsOf(SelectSeq(res[r].stream, IsSending))
            terminal == EmailsOf(SelectSeq(res[r].stream, IsTerminalStatus))
            n == Len(Recipients(r))
        IN /\ Len(terminal) <= Len(sending)
           /\ Len(sending) <= n
           /\ sending = SubSeq(Recipients(r), 1, Len(sending))
           /\ terminal = SubSeq(Recipients(r), 1, Len(terminal))
           /\ hnd[r].pc = "done" => Len(sending) = n /\ Len(terminal) = n

\* a finished batch of two different recipients, one sent and one failed
C1_Witness ==
    \E r \in Req :
        /\ hnd[r].pc = "done" /\ hnd[r].sseStarted
        /\ Recipients(r) = << "b@x.com", "a@x.com" >>
        /\ hnd[r].totalSent = 1 /\ hnd[r].totalFailed = 1
        /\ Len(SelectSeq(res[r].stream, IsSending)) = 2

(***************************************************************************)
(* C2: in every "complete" unit, totalSent + totalFailed is the number of  *)
(* recipients of the validated request, whatever the sends answered.       *)
(***************************************************************************)
C2_TotalsAddUp ==
    \A r \in Req : \A k \in 1..Len(res[r].stream) :
        LET u == res[r].stream[k]
        IN IsComplete(u) =>
              u.data.totalSent + u.data.totalFailed = Len(Recipients(r))

\* a summary with sends of both outcomes
C2_Witness ==
    \E r \in Req : \E k \in 1..Len(res[r].stream) :
        LET u == res[r].stream[k]
        IN IsComplete(u) /\ u.data.totalSent = 2 /\ u.data.totalFailed = 1

(***************************************************************************)
(* C3: a recipient's failure changes nothing for the others: sendMail is   *)
(* called once per recipient, in order, whatever the earlier answers, and  *)
(* the k-th result (and terminal unit) is "sent" exactly when the k-th     *)
(* sendMail call succeeded and "failed" exactly when it failed.            *)
(***************************************************************************)
C3_OutcomeIsOwnSend ==
    \A r \in Req : hnd[r].sseStarted =>
        LET calls == Calls(mail[r].log, "sendMail")
            answers == Answers(mail[r].log, "sendMail")
            results == hnd[r].results
        IN /\ Len(results) = Len(answers)
           /\ SelectSeq(res[r].stream, IsTerminalStatus) = results
           /\ \A k \in 1..Len(calls) : calls[k].options.to = Recipients(r)[k]
           /\ \A k \in 1..Len(results) :
                 /\ results[k].email = Recipients(r)[k]
                 /\ results[k].status = "sent" <=> answers[k].ok
                 /\ results[k].status = "failed" <=> ~answers[k].ok
           /\ hnd[r].pc = "done" => Len(calls) = Len(Recipients(r))

\* recipients [a (fails), b (succeeds)] end as a: failed, b: sent
C3_Witness ==
    \E r \in Req :
        /\ hnd[r].pc = "done"
        /\ Len(hnd[r].results) = 2
        /\ hnd[r].results[1].email = "a@x.com"
        /\ hnd[r].results[1].status = "failed"
        /\ hnd[r].results[2].email = "b@x.com"
        /\ hnd[r].results[2].status = "sent"

(***************************************************************************)
(* C4: an opened stream gets at most one terminal unit ("complete" or      *)
(* "error"); once written it is the last unit and the response is ended;   *)
(* a response ended after the stream was opened has exactly one terminal   *)
(* unit, and the handler does not finish without ending the response.      *)
(***************************************************************************)
C4_OneTerminalUnitThenEnd ==
    \A r \in Req : hnd[r].sseStarted =>
        LET stream == res[r].stream
            terminal == SelectSeq(stream, IsTerminalUnit)
        IN /\ Len(terminal) <= 1
           /\ Len(terminal) = 1 =>
                 IsTerminalUnit(stream[Len(stream)]) /\ res[r].ended
           /\ res[r].ended => Len(terminal) = 1
           /\ hnd[r].pc = "done" => res[r].ended

\* a stream closed after its summary
C4_Witness ==
    \E r \in Req :
        /\ hnd[r].sseStarted /\ res[r].ended
        /\ Len(res[r].stream) = 7
        /\ IsComplete(res[r].stream[7])

(***************************************************************************)
(* C5: once a "sent" or "failed" unit was written for an address, no other *)
(* status unit is written for that address in the batch, and the summary   *)
(* holds exactly one result for each address.                              *)
(***************************************************************************)
C5_NoUnitAfterTerminal ==
    \A r \in Req :
        LET stream == res[r].stream
        IN /\ \A j \in 1..Len(stream) : \A k \in (j + 1)..Len(stream) :
                 IsTerminalStatus(stream[j]) /\ IsStatusUnit(stream[k])
                     => stream[k].email # stream[j].email
           /\ \A k \in 1..Len(stream) : IsComplete(stream[k]) =>
                 LET results == stream[k].data.results
                 IN \A m, n \in 1..Len(results) :
                        results[m].email = results[n].email => m = n

(***************************************************************************)
(* C6: a request that fails validation (a field that is not JSON, a schema *)
(* violation, an upload of a type that is not allowed) gets no unit on the *)
(* stream and causes no call on nodemailer; the handler answers it with    *)
(* one 400 response.                                                       *)
(***************************************************************************)
FailsValidation(b) ==
    \/ BodyParseThrows(b)
    \/ sendEmailRequestIssues(RequestDataOf(b)) # << >>
    \/ \E k \in 1..Len(b.files) : b.files[k].mimetype \notin allowedFileTypes

C6_ValidationFailureDispatchesNothing ==
    \A r \in Req : (req[r] # NoRequest /\ FailsValidation(req[r])) =>
        /\ res[r].stream = << >>
        /\ mail[r].log = << >>
        /\ ~hnd[r].sseStarted
        /\ hnd[r].pc = "done" =>
              res[r].statusCode = 400 /\ Len(res[r].json) = 1 /\ res[r].ended

\* a request whose fields are all valid, rejected for an upload
C6_Witness ==
    \E r \in Req :
        /\ hnd[r].pc = "done"
        /\ res[r].statusCode = 400
        /\ hnd[r].validatedData # NoData
        /\ req[r].files = << PdfFile, ZipFile >>

(***************************************************************************)
(* C7: when transporter.verify rejects, the stream is not opened, no unit  *)
(* is written, sendMail is never called, and the caller gets one 401       *)
(* response.                                                               *)
(***************************************************************************)
C7_AuthFailureAborts ==
    \A r \in Req :
        Answers(mail[r].log, "verify") = << Answer("verify", FALSE) >> =>
            /\ ~hnd[r].sseStarted
            /\ res[r].stream = << >>
            /\ Calls(mail[r].log, "sendMail") = << >>
            /\ res[r].statusCode = 401
            /\ Len(res[r].json) = 1
            /\ res[r].ended
            /\ hnd[r].pc = "done"

\* a batch of three recipients whose credentials were refused
C7_Witness ==
    \E r \in Req :
        /\ Answers(mail[r].log, "verify") = << Answer("verify", FALSE) >>
        /\ Len(Recipients(r)) = 3
        /\ res[r].statusCode = 401

(***************************************************************************)
(* C8: at most one call on the mail service awaits its answer at any time; *)
(* the status units alternate "sending", terminal, "sending", terminal,    *)
(* each terminal unit for the address of the "sending" unit before it, so  *)
(* the "sending" unit of a recipient is written only after the terminal    *)
(* unit of the recipient before; each sendMail call has its "sending" unit *)
(* and each answer its terminal unit.                                      *)
(***************************************************************************)
C8_Sequential ==
    \A r \in Req :
        LET units == SelectSeq(res[r].stream, IsStatusUnit)
        IN /\ Inflight(mail[r].log) <= 1
           /\ \A k \in 1..Len(units) :
                 IF k % 2 = 1 THEN IsSending(units[k])
                 ELSE /\ IsTerminalStatus(units[k])
                      /\ units[k].email = units[k - 1].email
           /\ Len(Calls(mail[r].log, "sendMail"))
                 = Len(SelectSeq(units, IsSending))
           /\ Len(Answers(mail[r].log, "sendMail"))
                 = Len(SelectSeq(units, IsTerminalStatus))

\* the send to the second recipient awaits its answer
C8_Witness ==
    \E r \in Req :
        /\ hnd[r].pc = "sending" /\ hnd[r].i = 2
        /\ Inflight(mail[r].log) = 1
        /\ Len(res[r].stream) = 3

(***************************************************************************)
(* C9: after the caller dropped the connection in the middle of the batch  *)
(* (at least one unit had been written), the handler starts no new send    *)
(* (no further sendMail call) and writes no "complete" summary.            *)
(***************************************************************************)
C9_NoNewSendAfterDisconnect ==
    [][ \A r \in Req : (~connected[r].up /\ connected[r].delivered >= 1) =>
           /\ Len(Calls(mail'[r].log, "sendMail"))
                 = Len(Calls(mail[r].log, "sendMail"))
           /\ SelectSeq(res'[r].stream, IsComplete) = << >> ]_vars

(***************************************************************************)
(* C10: when the handler has finished a request for which it created a     *)
(* transport, the transport has been closed.                               *)
(***************************************************************************)
C10_SessionReleasedOnExit ==
    \A r \in Req :
        (hnd[r].pc = "done" /\ Calls(mail[r].log, "createTransport") # << >>)
            => Calls(mail[r].log, "close") # << >>

(***************************************************************************)
(* C11: in the "complete" unit, totalSent is the number of "sent" units    *)
(* written before it, totalFailed the number of "failed" units, and        *)
(* results is the sequence of exactly those terminal units, one for each   *)
(* recipient in the order of the request.                                  *)
(***************************************************************************)
IsSent(u) == IsStatusUnit(u) /\ u.status = "sent"
IsFailed(u) == IsStatusUnit(u) /\ u.status = "failed"

C11_SummaryMatchesUnits ==
    \A r \in Req : \A k \in 1..Len(res[r].stream) :
        IsComplete(res[r].stream[k]) =>
            LET written == SubSeq(res[r].stream, 1, k - 1)
                data == res[r].stream[k].data
            IN /\ data.results = SelectSeq(written, IsTerminalStatus)
               /\ data.totalSent = Len(SelectSeq(written, IsSent))
               /\ data.totalFailed = Len(SelectSeq(written, IsFailed))
               /\ EmailsOf(data.results) = Recipients(r)

\* a summary of partial success: one sent, two failed
C11_Witness ==
    \E r \in Req : \E k \in 1..Len(res[r].stream) :
        /\ IsComplete(res[r].stream[k])
        /\ res[r].stream[k].data.totalSent = 1
        /\ res[r].stream[k].data.totalFailed = 2
        /\ Len(res[r].stream[k].data.results) = 3

(***************************************************************************)
(* C12: the "from" of every message handed to sendMail is the fixed policy *)
(* address, whatever fromEmail the request carries.                        *)
(***************************************************************************)
PolicyFromAddress == "crmsupport@legacylifespaces.com"

C12_FromIsFixed ==
    \A r \in Req : \A k \in 1..Len(mail[r].log) :
        mail[r].log[k].op = "sendMail" =>
            mail[r].log[k].options.from = PolicyFromAddress

(***************************************************************************)
(* C13: the lifecycle of a recipient is "sending", attempt, terminal: when *)
(* the k-th sendMail call is made, the last unit on the stream is the      *)
(* "sending" unit of its recipient and k-1 terminal units precede it; the  *)
(* terminal units are as many as the answers received (one for each        *)
(* resolved attempt, none for an attempt that is unresolved or was never   *)
(* made), the k-th for the recipient of the k-th call, and "sent" only if  *)
(* the k-th call succeeded.                                                *)
(***************************************************************************)
C13_Lifecycle ==
    \A r \in Req :
        LET calls == Calls(mail[r].log, "sendMail")
            answers == Answers(mail[r].log, "sendMail")
            stream == res[r].stream
            terminal == SelectSeq(stream, IsTerminalStatus)
        IN /\ \A k \in 1..Len(calls) :
                 LET w == calls[k].written
                 IN /\ w \in 1..Len(stream)
                    /\ IsSending(stream[w])
                    /\ stream[w].email = calls[k].options.to
                    /\ Len(SelectSeq(SubSeq(stream, 1, w), IsTerminalStatus)) = k - 1
           /\ Len(terminal) = Len(answers)
           /\ \A k \in 1..Len(terminal) :
                 /\ terminal[k].email = calls[k].options.to
                 /\ terminal[k].status = "sent" => answers[k].ok

\* the third recipient is being attempted after a failure and a success
C13_Witness ==
    \E r \in Req :
        /\ hnd[r].pc = "sending" /\ hnd[r].i = 3
        /\ hnd[r].results[1].status = "failed"
        /\ hnd[r].results[2].status = "sent"
        /\ Len(res[r].stream) = 5

(***************************************************************************)
(* C14: a response is synchronous or streamed, never both.  A request that *)
(* fails validation, or whose verify call was rejected, never has a unit   *)
(* on its stream and gets at most one JSON body, exactly one with status   *)
(* 400 or 401 once the handler is done; a response with a unit on its      *)
(* stream, or whose stream was opened, carries no JSON body; and an        *)
(* "error" unit is the last unit of its stream, on an ended response.      *)
(***************************************************************************)
C14_SyncOrStreamed ==
    \A r \in Req :
        /\ ( req[r] # NoRequest
             /\ ( FailsValidation(req[r])
                  \/ Answers(mail[r].log, "verify") = << Answer("verify", FALSE) >> ) )
           => /\ res[r].stream = << >>
              /\ ~hnd[r].sseStarted
              /\ Len(res[r].json) <= 1
              /\ hnd[r].pc = "done"
                   => /\ Len(res[r].json) = 1
                      /\ "message" \in DOMAIN res[r].json[1]
                      /\ res[r].statusCode \in {400, 401}
        /\ (res[r].stream # << >> \/ hnd[r].sseStarted) => res[r].json = << >>
        /\ \A k \in 1..Len(res[r].stream) :
              IsErrorUnit(res[r].stream[k])
                  => k = Len(res[r].stream) /\ res[r].ended

\* a write threw after two units were written: the stream closes with the
\* "error" unit, and no JSON body was sent
C14_Witness ==
    \E r \in Req :
        /\ Len(res[r].stream) >= 3
        /\ IsStatusUnit(res[r].stream[1])
        /\ IsErrorUnit(res[r].stream[Len(res[r].stream)])
        /\ res[r].json = << >>
        /\ res[r].ended

(***************************************************************************)
(* C15: the error response of a rejected request enumerates every violated *)
(* constraint: when the fields of a request parse as JSON and the request  *)
(* is answered with status 400, the body lists every issue of the schema   *)
(* and names every uploaded file of a type that is not allowed.            *)
(***************************************************************************)
C15_AllViolationsReported ==
    \A r \in Req :
        ( /\ hnd[r].pc = "done" /\ res[r].statusCode = 400
          /\ ~BodyParseThrows(req[r]) )
        => LET issues == sendEmailRequestIssues(RequestDataOf(req[r]))
               files == req[r].files
               bad == { k \in 1..Len(files) :
                          files[k].mimetype \notin allowedFileTypes }
               body == res[r].json[1]
           IN /\ issues # << >>
                  => "errors" \in DOMAIN body /\ body.errors = issues
              /\ \A k \in bad :
                     /\ "originalname" \in DOMAIN body
                     /\ body.originalname = files[k].originalname

\* the smtpConfig object of a request, when the field holds one
HasConfig(b) == b.smtpConfig.t = "jsontext" /\ b.smtpConfig.val.t = "object"
ConfigOf(b) == b.smtpConfig.val.o
MissingOrEmpty(v) == v.t = "undefined" \/ (IsString(v) /\ IsEmptyString(v))

C17_DistinctValidRecipients ==
    \A r \in Req :
        hnd[r].sseStarted
        => LET rcpts == Recipients(r)
               calls == Calls(mail[r].log, "sendMail")
           IN /\ rcpts # << >>
              /\ \A k \in 1..Len(rcpts) : rcpts[k] \in WellFormedAddresses
              /\ \A j, k \in 1..Len(rcpts) : rcpts[j] = rcpts[k] => j = k
              /\ \A j, k \in 1..Len(calls) :
                     calls[j].options.to = calls[k].options.to => j = k

(***************************************************************************)
(* C18: the session is reused.  A batch creates at most one transport and  *)
(* calls verify at most once; when a sendMail call is made, the log of the *)
(* batch starts with the creation of the transport, the one verify call    *)
(* and its positive answer, and everything after them is sendMail calls    *)
(* and their answers, so all of them go through that transport.            *)
(***************************************************************************)
C18_SessionReused ==
    \A r \in Req :
        LET log == mail[r].log
        IN /\ Len(Calls(log, "createTransport")) <= 1
           /\ Len(Calls(log, "verify")) <= 1
           /\ Calls(log, "sendMail") # << >>
                => /\ Len(log) > 3
                   /\ log[1].op = "createTransport"
                   /\ log[2].op = "verify"
                   /\ log[3] = Answer("verify", TRUE)
                   /\ \A k \in 4..Len(log) :
                          \/ log[k].op = "sendMail"
                          \/ (log[k].op = "answer" /\ log[k].of = "sendMail")

\* three messages were sent over the one verified transport
C18_Witness ==
    \E r \in Req :
        /\ Len(Calls(mail[r].log, "sendMail")) = 3
        /\ Len(Answers(mail[r].log, "sendMail")) = 3
        /\ Len(Calls(mail[r].log, "createTransport")) = 1
        /\ Len(Calls(mail[r].log, "verify")) = 1

\* a message without its target
Shared(options) ==
    [ f \in DOMAIN options \ {"to"} |-> options[f] ]

(***************************************************************************)
(* C19: the k-th message of a batch has the k-th recipient as its one      *)
(* "to" target; it carries every uploaded file, in upload order, under the *)
(* file's own name; and from, subject, html, text, cc, bcc and attachments *)
(* are the same in all messages of the batch.                              *)
(***************************************************************************)
C19_SharedFieldsIdentical ==
    \A r \in Req :
        LET calls == Calls(mail[r].log, "sendMail")
            files == req[r].files
        IN /\ \A k \in 1..Len(calls) :
                 /\ calls[k].options.to = Recipients(r)[k]
                 /\ calls[k].options.to \in WellFormedAddresses
                 /\ calls[k].options.attachments =
                        [ j \in 1..Len(files) |->
                            [ filename |-> files[j].originalname,
                              content |-> files[j].buffer ] ]
                 /\ DOMAIN calls[k].options =
                        { "from", "to", "subject", "html", "text", "cc", "bcc",
                          "attachments" }
           /\ \A j, k \in 1..Len(calls) :
                 Shared(calls[j].options) = Shared(calls[k].options)

\* two messages to different recipients, both with the two uploaded files
\* and the cc address
C19_Witness ==
    \E r \in Req :
        LET calls == Calls(mail[r].log, "sendMail")
        IN /\ Len(calls) >= 2
           /\ calls[1].options.to # calls[2].options.to
           /\ Len(calls[2].options.attachments) = 2
           /\ calls[2].options.cc # Undef

\* what request r would have on its stream had it run alone, given the
\* sendMail calls it made and the answers it got: for each call the
\* "sending" unit of the recipient in turn, followed by the terminal unit
\* of its answer
OwnRecipients(r) == Strings(JSONparse(req[r].recipients).a)
OwnStatuses(r) ==
    LET calls == Calls(mail[r].log, "sendMail")
        answers == Answers(mail[r].log, "sendMail")
    IN [ p \in 1..(Len(calls) + Len(answers)) |->
           LET k == (p + 1) \div 2
           IN << OwnRecipients(r)[k],
                 IF p % 2 = 1 THEN "sending"
                 ELSE IF answers[k].ok THEN "sent" ELSE "failed" >> ]
StatusesOf(units) == [ p \in 1..Len(units) |-> << units[p].email, units[p].status >> ]

(***************************************************************************)
(* C20: concurrent batches are independent.  In every interleaving of two  *)
(* requests, the status units on the stream of each are those of its own   *)
(* recipients and its own send outcomes, as if it had run alone; its       *)
(* counters and its summary count its own answers only; and its transport  *)
(* is created once, from its own credentials.                              *)
(***************************************************************************)
C20_BatchesIndependent ==
    \A r \in Req :
        LET stream == res[r].stream
            answers == Answers(mail[r].log, "sendMail")
            ok == Len(SelectSeq(answers, LAMBDA e : e.ok))
            created == Calls(mail[r].log, "createTransport")
            statuses == SelectSeq(stream, IsStatusUnit)
        IN /\ hnd[r].validatedData # NoData
                => hnd[r].validatedData = sendEmailRequestData(RequestDataOf(req[r]))
           /\ StatusesOf(statuses) = OwnStatuses(r)
           /\ hnd[r].totalSent = ok
           /\ hnd[r].totalFailed = Len(answers) - ok
           /\ \A p \in 1..Len(stream) :
                  \/ /\ p <= Len(statuses) /\ IsStatusUnit(stream[p])
                  \/ /\ p = Len(statuses) + 1 /\ IsComplete(stream[p])
                     /\ stream[p].data.totalSent = ok
                     /\ stream[p].data.totalFailed = Len(answers) - ok
                     /\ stream[p].data.results = SelectSeq(statuses, IsTerminalStatus)
                     /\ EmailsOf(stream[p].data.results) = OwnRecipients(r)
           /\ Len(created) <= 1
           /\ \A k \in 1..Len(created) :
                  created[k].user = ConfigOf(req[r]).username.s

\* both requests are waiting for the answer to the send for their second
\* recipient
C20_Witness ==
    /\ \A r \in Req : hnd[r].pc = "sending" /\ hnd[r].i = 2
    /\ hnd[1].totalSent = 1 /\ hnd[2].totalFailed = 1
    /\ mail[1].log[1].user # mail[2].log[1].user

(***************************************************************************)
(* The client (src/unnamed/part_001): the recipient normalizer.  Texts are *)
(* sequences of characters.                                                *)
(***************************************************************************)
MaxItems == 3

\* the character classes of emailRegex
Letters ==
    { "a", "b", "c", "d", "e", "f", "g", "h", "i", "j", "k", "l", "m", "n",
    "o", "p", "q", "r", "s", "t", "u", "v", "w", "x", "y", "z", "A", "B",
    "C", "D", "E", "F", "G", "H", "I", "J", "K", "L", "M", "N", "O", "P",
    "Q", "R", "S", "T", "U", "V", "W", "X", "Y", "Z" }
Digits == { "0", "1", "2", "3", "4", "5", "6", "7", "8", "9" }
LocalChars == Letters \cup Digits \cup { ".", "_", "%", "+", "-" }
DomainChars == Letters \cup Digits \cup { ".", "-" }

\* the last index of the longest run of characters of class C that starts
\* at index i of cs (i - 1 when cs[i] is not in C): a greedy C*
RunEnd(cs, i, C) ==
    LET stops == { j \in i..Len(cs) : cs[j] \notin C }
    IN IF stops = {} THEN Len(cs)
       ELSE (CHOOSE j \in stops : \A m \in stops : j <= m) - 1

\* the end of the match of emailRegex that starts at index s of cs, 0 when
\* there is none.  [a-zA-Z0-9._%+-]+ is greedy and must stop right before
\* an "@"; [a-zA-Z0-9.-]+ is greedy and gives back characters until what
\* follows is a "." and two letters, so the "." taken is the last one of
\* the run that two letters follow; [a-zA-Z]{2,} is greedy.
MatchEnd(cs, s) ==
    LET l == RunEnd(cs, s, LocalChars)
        at == l + 1
        d == RunEnd(cs, at + 1, DomainChars)
        dots == { q \in (at + 2)..d :
                    /\ cs[q] = "." /\ q + 2 <= Len(cs)
                    /\ cs[q + 1] \in Letters /\ cs[q + 2] \in Letters }
    IN IF l < s \/ at > Len(cs) THEN 0
       ELSE IF cs[at] # "@" \/ dots = {} THEN 0
       ELSE RunEnd(cs, (CHOOSE q \in dots : \A m \in dots : m <= q) + 1, Letters)

RECURSIVE Matches(_, _)
\* text.match(emailRegex), searching from index from on: the leftmost
\* match, then the matches after its end
Matches(cs, from) ==
    LET starts == { s \in from..Len(cs) : MatchEnd(cs, s) # 0 }
    IN IF starts = {} THEN << >>
       ELSE LET s == CHOOSE x \in starts : \A y \in starts : x <= y
            IN << SubSeq(cs, s, MatchEnd(cs, s)) >>
               \o Matches(cs, MatchEnd(cs, s) + 1)

RECURSIVE Distinct(_)
\* Array.from(new Set(a)): a Set keeps the first insertion of each value
Distinct(a) ==
    IF a = << >> THEN << >>
    ELSE LET front == Distinct(SubSeq(a, 1, Len(a) - 1))
         IN IF \E k \in 1..Len(front) : front[k] = a[Len(a)]
            THEN front ELSE Append(front, a[Len(a)])

\* parseEmails without the Set
parseEmailsKeepsAll(text) == Matches(text, 1)

\* lines 101-105
parseEmails(text) == Distinct(Matches(text, 1))

\* what is typed or pasted into the recipients field: items, with a
\* separator between one and the next
AliceAddr == << "a", "l", "i", "c", "e", "@", "x", ".", "c", "o", "m" >>
BobAddr == << "b", "o", "b", "@", "x", ".", "c", "o", "m" >>
CarolAddr == << "c", "a", "r", "o", "l", "@", "x", ".", "c", "o", "m" >>
Items ==
    { AliceAddr, BobAddr,
      << "a", ".", "b", "@", "m", "a", "i", "l", ".", "x", ".", "c", "o" >>,
      << "b", "o", "b", "@", "x", ".", "c", "o", "m", "1" >>,
      << "a", "l", "i", "c", "e", "@", "x" >> }
Separators == { << "\n" >>, << "," >>, << ";" >>, << " " >> }

RECURSIVE Joined(_, _)
\* the items with seps[k] between item k and item k + 1
Joined(items, seps) ==
    IF items = << >> THEN << >>
    ELSE IF Len(items) = 1 THEN items[1]
    ELSE items[1] \o seps[1] \o Joined(Tail(items), Tail(seps))

\* the example of the specification
ExampleItems == << AliceAddr, BobAddr, AliceAddr, BobAddr, CarolAddr >>
ExampleSeps == << << ",", " " >>, << "\n" >>, << " " >>, << ";" >> >>

Typed ==
    { [ items |-> ExampleItems, seps |-> ExampleSeps ] }
    \cup UNION { [ items : [1..n -> Items],
                   seps : [1..(IF n = 0 THEN 0 ELSE n - 1) -> Separators] ] :
                 n \in 0..MaxItems }

\* the server with no request
NoServer ==
    /\ req = [ r \in Req |-> NoRequest ]
    /\ hnd = [ r \in Req |-> NewHandler(FALSE) ]
    /\ res = [ r \in Req |-> NewResponse ]
    /\ mail = [ r \in Req |-> NewMail ]
    /\ connected = [ r \in Req |-> [ up |-> FALSE, delivered |-> 0 ] ]

\* the form with its default values (lines 89-98); typed is what the user
\* is about to enter
InitParse ==
    /\ NoServer
    /\ \E t \in Typed :
           cli = [ typed |-> t, recipientsText |-> << >>, recipients |-> << >> ]

\* lines 107-111
handleRecipientsChange(value) ==
    /\ cli.recipientsText # value
    /\ cli' = [ cli EXCEPT !.recipientsText = value,
                           !.recipients = parseEmails(value) ]
    /\ UNCHANGED <<req, hnd, res, mail, connected>>

NextParse == handleRecipientsChange(Joined(cli.typed.items, cli.typed.seps))

SpecParse == InitParse /\ [][NextParse]_vars

\* the pattern of emailRegex, anchored: what the normalizer takes for a
\* syntactically valid address
IsAddress(cs) ==
    \E at \in 2..Len(cs) : \E dot \in (at + 2)..(Len(cs) - 2) :
        /\ cs[at] = "@" /\ cs[dot] = "."
        /\ \A k \in 1..(at - 1) : cs[k] \in LocalChars
        /\ \A k \in (at + 1)..(dot - 1) : cs[k] \in DomainChars
        /\ \A k \in (dot + 1)..Len(cs) : cs[k] \in Letters

RECURSIVE Flat(_)
Flat(ss) == IF ss = << >> THEN << >> ELSE Head(ss) \o Flat(Tail(ss))

Occurs(x, a) == \E k \in 1..Len(a) : a[k] = x
FirstIndex(x, a) == CHOOSE k \in 1..Len(a) : a[k] = x /\ \A m \in 1..(k - 1) : a[m] # x

C22_FailedHasReason ==
    \A r \in Req : \A k \in 1..Len(res[r].stream) :
        LET u == res[r].stream[k]
        IN /\ IsFailed(u) => ("error" \in DOMAIN u /\ u.error # "")
           /\ IsComplete(u)
                => \A j \in 1..Len(u.data.results) :
                      IsFailed(u.data.results[j])
                          => /\ "error" \in DOMAIN u.data.results[j]
                             /\ u.data.results[j].error # ""

(***************************************************************************)
(* C23: a request with an attachment of a type outside the allow-list, or  *)
(* with an attachment larger than the per-file limit, or with more         *)
(* attachments than the maximum, is rejected as a whole: no transport is   *)
(* created, no message is sent, no stream is opened, and the request ends  *)
(* with an error status.                                                   *)
(***************************************************************************)
C23_AttachmentLimitsRejectWhole ==
    \A r \in Req :
        ( /\ req[r] # NoRequest
          /\ LET files == req[r].files
             IN \/ \E k \in 1..Len(files) : files[k].mimetype \notin allowedFileTypes
                \/ \E k \in 1..Len(files) : files[k].size > fileSize
                \/ Len(files) > maxCount )
        => /\ mail[r].log = << >>
           /\ res[r].stream = << >>
           /\ ~hnd[r].sseStarted
           /\ res[r].headers = {}
           /\ hnd[r].pc \notin {"transport", "verify", "loop", "sending"}
           /\ hnd[r].pc = "done" => (res[r].ended /\ res[r].statusCode >= 400)

\* eleven allowed, small files: the request was rejected before the handler
C23_Witness ==
    \E r \in Req :
        /\ req[r] # NoRequest
        /\ Len(req[r].files) = maxCount + 1
        /\ hnd[r].pc = "done" /\ res[r].ended /\ res[r].statusCode = 500
        /\ mail[r].log = << >>

\* what the mail service answered to request r, and how far r has got
Outcomes(r) ==
    [ verify |-> Answers(mail[r].log, "verify"),
      sendMail |-> Answers(mail[r].log, "sendMail"),
      calls |-> Len(Calls(mail[r].log, "sendMail")),
      pc |-> hnd[r].pc ]

(***************************************************************************)
(* C24: cc, bcc and attachments do not alter the per-recipient behaviour.  *)
(* Of two batches with the same recipients, one with cc, bcc and           *)
(* attachments and one without, that got the same answers from the mail    *)
(* service and are at the same point, the responses are the same: same     *)
(* status, same units on the stream, same summary.                         *)
(***************************************************************************)
C24_OptionalFieldsNeutral ==
    \A r1, r2 \in Req :
        ( /\ req[r1] # NoRequest /\ req[r2] # NoRequest
          /\ req[r1].recipients = req[r2].recipients
          /\ Outcomes(r1) = Outcomes(r2) )
        => /\ res[r1].stream = res[r2].stream
           /\ res[r1].statusCode = res[r2].statusCode
           /\ res[r1].json = res[r2].json
           /\ res[r1].ended = res[r2].ended

\* both batches are complete, after a success and a failure each, and the
\* first one did carry cc, bcc and two attachments
C24_Witness ==
    /\ Outcomes(1) = Outcomes(2)
    /\ hnd[1].pc = "done" /\ hnd[1].totalSent = 1 /\ hnd[1].totalFailed = 1
    /\ Len(res[2].stream) = 5
    /\ Len(hnd[1].attachments) = 2 /\ hnd[2].attachments = << >>
    /\ hnd[1].validatedData.cc # Undef /\ hnd[2].validatedData.cc = Undef

\* the "error" units on the stream of request r
ErrorUnits(r) == SelectSeq(res[r].stream, IsErrorUnit)

\* a step in which a write of request r throws
WriteThrows(r) ==
    \/ \E error \in ThrownErrors : \E again, lost \in BOOLEAN :
           \/ SendingWriteThrows(r, error, again, lost)
           \/ SentWriteThrows(r, error, again, lost)
    \/ \E sendError \in SendErrors : \E error \in ThrownErrors :
           \E lost \in BOOLEAN : FailedWriteThrows(r, sendError, error, lost)
    \/ \E error \in ThrownErrors : \E lost \in BOOLEAN :
           CompleteWriteThrows(r, error, lost)

(***************************************************************************)
(* C25: a delivery failure stays with its recipient.  The step that        *)
(* handles a rejected sendMail call writes no "error" unit, leaves the     *)
(* response open and moves on to the next recipient; and an "error" unit   *)
(* is written only by a step in which an exception escapes the handling of *)
(* a recipient (a write throws) after the stream was opened.               *)
(***************************************************************************)
C25_FailureStaysLocal ==
    [][ \A r \in Req :
          /\ (\E error \in SendErrors : SendFails(r, error))
                => /\ ErrorUnits(r)' = << >>
                   /\ ~res'[r].ended
                   /\ hnd'[r].pc = "loop" /\ hnd'[r].i = hnd[r].i + 1
                   /\ IsFailed(res'[r].stream[Len(res'[r].stream)])
          /\ ErrorUnits(r)' # ErrorUnits(r)
                => (hnd[r].sseStarted /\ WriteThrows(r)) ]_vars

\* the first recipient was rejected, the second was sent, and the stream
\* ended with the summary and without an "error" unit
C25_Witness ==
    \E r \in Req :
        /\ hnd[r].pc = "done" /\ res[r].ended
        /\ Len(hnd[r].results) = 2
        /\ hnd[r].results[1].status = "failed"
        /\ hnd[r].results[2].status = "sent"
        /\ ErrorUnits(r) = << >>
        /\ IsComplete(res[r].stream[Len(res[r].stream)])

(***************************************************************************)
(* C26: every request eventually finishes.  If every verify and sendMail   *)
(* call resolves, the handler ends the response, with one JSON error body  *)
(* or with a stream whose last unit is the summary, having called sendMail *)
(* at most once for each recipient.                                        *)
(***************************************************************************)
C26_EventuallyEnds ==
    \A r \in Req :
        (req[r] # NoRequest)
        ~> /\ hnd[r].pc = "done" /\ res[r].ended
           /\ \/ Len(res[r].json) = 1 /\ res[r].stream = << >>
              \/ /\ res[r].json = << >> /\ res[r].stream # << >>
                 /\ IsComplete(res[r].stream[Len(res[r].stream)])
                 /\ Len(Calls(mail[r].log, "sendMail")) <= Len(Recipients(r))

\* a batch of three finished although the caller had gone away
C26_Witness ==
    \E r \in Req :
        /\ hnd[r].pc = "done" /\ res[r].ended
        /\ Len(Calls(mail[r].log, "sendMail")) = 3
        /\ ~connected[r].up

(***************************************************************************)
(* C27: the loop invariant of the dispatcher.  Between two recipients,     *)
(* also after a write that threw inside the try block, the length of       *)
(* results is totalSent + totalFailed, is the number of recipients done,   *)
(* and is the number of terminal units written; and results[k] is about    *)
(* the k-th recipient.                                                     *)
(***************************************************************************)
C27_LoopInvariant ==
    \A r \in Req :
        hnd[r].pc = "loop"
        => /\ Len(hnd[r].results) = hnd[r].totalSent + hnd[r].totalFailed
           /\ Len(hnd[r].results) = hnd[r].i - 1
           /\ Len(hnd[r].results) = Len(SelectSeq(res[r].stream, IsTerminalStatus))
           /\ \A k \in 1..Len(hnd[r].results) :
                  /\ k <= Len(Recipients(r))
                  /\ hnd[r].results[k].email = Recipients(r)[k]

(***************************************************************************)
(* The client (src/unnamed/part_001): handleSSEStream and onSubmit.        *)
(*                                                                         *)
(* The body of a streamed response is bytes.  A text is a sequence of      *)
(* characters; Ch(c) is an ASCII character, and the JSON text of a unit u  *)
(* is taken to be three characters long, Jc(u, 1..3), the middle one not   *)
(* ASCII: two bytes on the wire, so that a chunk can end inside a          *)
(* character as well as inside a line.                                     *)
(***************************************************************************)
Ch(c) == [ c |-> c ]
Jc(u, k) == [ json |-> u, part |-> k ]
NewLine == Ch("\n")
DataPrefix == << Ch("d"), Ch("a"), Ch("t"), Ch("a"), Ch(":"), Ch(" ") >>

\* JSON.stringify(unit)
Stringify(u) == << Jc(u, 1), Jc(u, 2), Jc(u, 3) >>

\* JSON.parse(text) throws unless text is the JSON text of a value
JSONtextThrows(text) ==
    ~ /\ Len(text) = 3
      /\ \A k \in 1..3 : "json" \in DOMAIN text[k] /\ text[k].part = k
      /\ text[2].json = text[1].json /\ text[3].json = text[1].json
JSONvalue(text) == text[1].json

\* routes.ts: res.write(`data: ${JSON.stringify(unit)}\n\n`)
Frame(u) == DataPrefix \o Stringify(u) \o << NewLine, NewLine >>

\* the UTF-8 bytes of a character
Utf8(ch) ==
    IF "json" \in DOMAIN ch /\ ch.part = 2
    THEN << [ lead |-> ch ], [ trail |-> ch ] >>
    ELSE << [ byte |-> ch ] >>

Bytes(text) == Flat([ k \in 1..Len(text) |-> Utf8(text[k]) ])

\* the bytes of the body of a streamed response with these units
Wire(units) == Flat([ k \in 1..Len(units) |-> Bytes(Frame(units[k])) ])

\* U+FFFD, what the decoder gives for bytes that are no character
Replacement == Ch("?")

\* decoder.decode(value, { stream: true }): the characters completed by
\* these bytes, and the bytes kept for the next call.  held: the lead byte
\* of an unfinished character, if any
Decode(held, bytes) ==
    LET all == held \o bytes
        IsLead(i) == i >= 1 /\ i <= Len(all) /\ "lead" \in DOMAIN all[i]
        Pairs(i) == IsLead(i - 1) /\ all[i - 1].lead = all[i].trail
        At(i) == IF IsLead(i)
                 THEN IF i = Len(all) \/ ("trail" \in DOMAIN all[i + 1] /\ Pairs(i + 1))
                      THEN << >> ELSE << Replacement >>
                 ELSE IF "trail" \in DOMAIN all[i]
                 THEN IF Pairs(i) THEN << all[i].trail >> ELSE << Replacement >>
                 ELSE << all[i].byte >>
    IN [ out |-> Flat([ i \in 1..Len(all) |-> At(i) ]),
         held |-> IF IsLead(Len(all)) THEN << all[Len(all)] >> ELSE << >> ]

RECURSIVE Split(_)
\* text.split("\n"): the pieces between the line feeds, at least one
Split(text) ==
    IF \A k \in 1..Len(text) : text[k] # NewLine THEN << text >>
    ELSE LET k == CHOOSE j \in 1..Len(text) :
                      text[j] = NewLine /\ \A m \in 1..(j - 1) : text[m] # NewLine
         IN << SubSeq(text, 1, k - 1) >> \o Split(SubSeq(text, k + 1, Len(text)))

\* line.startsWith("data: ")
StartsWithData(line) ==
    Len(line) >= Len(DataPrefix) /\ SubSeq(line, 1, Len(DataPrefix)) = DataPrefix

\* `value || fallback` for a message
OrElse(message, fallback) == IF message = "" THEN fallback ELSE message

\* UpdateStatuses adding an entry for an email that has none
UpdateStatusesAppends(prev, data) ==
    LET found == { k \in 1..Len(prev) :
                     "email" \in DOMAIN data /\ prev[k].email = data.email }
    IN IF found = {} THEN Append(prev, data)
       ELSE [ prev EXCEPT ![CHOOSE k \in found : \A m \in found : k <= m] = data ]

\* lines 186-195: the updater given to setEmailStatuses
UpdateStatuses(prev, data) ==
    LET found == { k \in 1..Len(prev) :
                     "email" \in DOMAIN data /\ prev[k].email = data.email }
    IN IF found = {} THEN prev
       ELSE [ prev EXCEPT ![CHOOSE k \in found : \A m \in found : k <= m] = data ]

\* the locals of handleSSEStream and the React state it touches
NewReader(statuses) ==
    [ emailStatuses |-> statuses, buffer |-> << >>, held |-> << >>,
      completed |-> FALSE, serverError |-> << >>, toasts |-> << >> ]

\* lines 166-198: the body of the for loop, for one line
HandleLine(st, line) ==
    IF ~StartsWithData(line) THEN st
    ELSE LET text == SubSeq(line, Len(DataPrefix) + 1, Len(line))
         IN IF JSONtextThrows(text) THEN st
            ELSE LET data == JSONvalue(text)
                 IN IF "type" \in DOMAIN data /\ data.type = "complete"
                    THEN [ st EXCEPT
                             !.completed = TRUE,
                             !.toasts = Append(@,
                                 [ title |-> "Emails Sent",
                                   totalSent |-> data.data.totalSent,
                                   totalFailed |-> data.data.totalFailed ]) ]
                    ELSE IF "type" \in DOMAIN data /\ data.type = "error"
                    THEN [ st EXCEPT !.serverError =
                             << OrElse(data.message,
                                       "Server error during email sending") >> ]
                    ELSE [ st EXCEPT !.emailStatuses = UpdateStatuses(@, data) ]

RECURSIVE HandleLines(_, _)
\* lines 165-199: the for loop, left at the first "error" unit
HandleLines(st, lines) ==
    IF lines = << >> \/ st.serverError # << >> THEN st
    ELSE HandleLines(HandleLine(st, Head(lines)), Tail(lines))

\* AfterChunk starting each chunk with an empty buffer
AfterChunkDropsBuffer(st, chunk) ==
    LET decoded == Decode(st.held, chunk)
        pieces == Split(decoded.out)
    IN HandleLines([ st EXCEPT !.buffer = pieces[Len(pieces)],
                               !.held = decoded.held ],
                   SubSeq(pieces, 1, Len(pieces) - 1))

\* lines 160-199: one turn of the while loop, for the chunk read
AfterChunk(st, chunk) ==
    LET decoded == Decode(st.held, chunk)
        pieces == Split(st.buffer \o decoded.out)
    IN HandleLines([ st EXCEPT !.buffer = pieces[Len(pieces)],
                               !.held = decoded.held ],
                   SubSeq(pieces, 1, Len(pieces) - 1))

\* the page before a submission: the recipients parsed from the form, the
\* files picked, and the React state (lines 80-87)
NewClient(recipients, attachments) ==
    [ pc |-> "form", recipients |-> recipients, attachments |-> attachments,
      isSending |-> FALSE, body |-> "unread", read |-> 0, thrown |-> "",
      st |-> NewReader(<< >>) ]

\* lines 229-251: the FormData of onSubmit
FormDataOf(c) ==
    [ smtpConfig |-> JsonText(ConfigObj(Str("user"), Str("secret"),
                                        Str("smtp.zeptomail.in"), Num(587),
                                        Str("crmsupport@legacylifespaces.com"))),
      recipients |-> JsonText(Arr([ k \in 1..Len(c.recipients) |->
                                      Str(c.recipients[k]) ])),
      subject |-> Str("Hello"),
      htmlBody |-> Txt(HtmlHi),
      textBody |-> Txt(StripTags(HtmlHi)),
      cc |-> Undef, bcc |-> Undef,
      files |-> c.attachments ]

\* lines 253-258: the status list and the flag when a submission starts
Submitted(c) ==
    [ c EXCEPT !.st = NewReader([ k \in 1..Len(c.recipients) |->
                                    [ email |-> c.recipients[k],
                                      status |-> "pending" ] ]),
               !.isSending = TRUE,
               !.pc = "fetch" ]

\* Thrown with a catch that leaves the flag as it is
ThrownKeepsSending(c, message) ==
    [ c EXCEPT !.pc = "thrown", !.thrown = message,
               !.st.toasts = Append(@, [ title |-> "Error",
                                         description |-> message ]) ]

\* lines 262-270: handleSSEStream threw; the catch of onSubmit
Thrown(c, message) ==
    [ c EXCEPT !.pc = "thrown", !.thrown = message, !.isSending = FALSE,
               !.st.toasts = Append(@, [ title |-> "Error",
                                         description |-> message ]) ]

StreamEndedMessage == "Stream ended unexpectedly without completion message"
FetchFailedMessage == "Failed to fetch"
ReadFailedMessage == "network error"
NotJsonMessage == "Unexpected token < in JSON"
NetworkMessages == { FetchFailedMessage, ReadFailedMessage }

\* Finished without the check of completed
FinishedAnyway(c) ==
    IF c.st.serverError # << >> THEN Thrown(c, c.st.serverError[1])
    ELSE [ c EXCEPT !.pc = "returned", !.isSending = FALSE ]

\* lines 201-215: after the while loop
Finished(c) ==
    IF c.st.serverError # << >> THEN Thrown(c, c.st.serverError[1])
    ELSE IF ~c.st.completed THEN Thrown(c, StreamEndedMessage)
    ELSE [ c EXCEPT !.pc = "returned", !.isSending = FALSE ]

\* lines 218-260: onSubmit up to the call of fetch, which starts request 1
Submit ==
    /\ cli.pc = "form"
    /\ IF cli.recipients = << >>
       THEN /\ cli' = [ cli EXCEPT
                  !.pc = "unsent",
                  !.st.toasts = Append(@, [ title |-> "No Recipients" ]) ]
            /\ UNCHANGED <<req, hnd, connected>>
       ELSE /\ cli' = Submitted(cli)
            /\ req' = [ req EXCEPT ![1] = FormDataOf(cli) ]
            /\ hnd' = [ hnd EXCEPT ![1] = NewHandler(TRUE) ]
            /\ connected' = [ connected EXCEPT ![1] = [ up |-> TRUE, delivered |-> 0 ] ]
    /\ UNCHANGED <<res, mail>>

\* response.ok
Ok(rs) == rs.statusCode >= 200 /\ rs.statusCode <= 299

\* lines 135-148: fetch resolved, with the status line and the headers of
\* the response of request 1.  body: what the page did with the body of the
\* response, response.json() (line 141) or response.body.getReader() (145)
FetchResolves ==
    /\ cli.pc = "fetch"
    /\ connected[1].up
    /\ res[1].ended \/ res[1].stream # << >>
    /\ cli' = IF Ok(res[1])
              THEN [ cli EXCEPT !.pc = "reading", !.body = "reader" ]
              ELSE LET c == [ cli EXCEPT !.body = "json" ]
                   IN IF res[1].json = << >> THEN Thrown(c, NotJsonMessage)
                      ELSE Thrown(c, OrElse(res[1].json[1].message,
                                            "Failed to send emails"))
    /\ UNCHANGED <<req, hnd, res, mail, connected>>

\* line 135: fetch rejected
FetchFails ==
    /\ cli.pc = "fetch"
    /\ ~connected[1].up
    /\ cli' = Thrown(cli, FetchFailedMessage)
    /\ UNCHANGED <<req, hnd, res, mail, connected>>

\* lines 160-199: reader.read() gave the next n bytes of the body
Read(n) ==
    /\ cli.pc = "reading"
    /\ connected[1].up
    /\ LET wire == Wire(res[1].stream)
       IN /\ cli.read + n <= Len(wire)
          /\ LET st == AfterChunk(cli.st, SubSeq(wire, cli.read + 1, cli.read + n))
                 c == [ cli EXCEPT !.st = st, !.read = @ + n ]
             IN cli' = IF st.serverError # << >> THEN Finished(c) ELSE c
    /\ UNCHANGED <<req, hnd, res, mail, connected>>

\* lines 161-162, 201-215: reader.read() gave done
ReadDone ==
    /\ cli.pc = "reading"
    /\ connected[1].up
    /\ res[1].ended
    /\ cli.read = Len(Wire(res[1].stream))
    /\ cli' = Finished(cli)
    /\ UNCHANGED <<req, hnd, res, mail, connected>>

\* line 161: reader.read() rejected; the finally block, then the throw
ReadFails ==
    /\ cli.pc = "reading"
    /\ ~connected[1].up
    /\ cli' = Thrown(cli, ReadFailedMessage)
    /\ UNCHANGED <<req, hnd, res, mail, connected>>

\* the connection between the page and the server breaks
ConnectionLost ==
    /\ cli.pc \in {"fetch", "reading"}
    /\ connected[1].up
    /\ connected' = [ connected EXCEPT
           ![1] = [ up |-> FALSE, delivered |-> Len(res[1].stream) ] ]
    /\ UNCHANGED <<cli, req, hnd, res, mail>>

(***************************************************************************)
(* The consumer against any response: the response of request 1 is given   *)
(* whole, and is any of those the server gives, those a server gives whose *)
(* writes throw, and streams cut short on the way.                         *)
(***************************************************************************)
SendingA == [ email |-> "a@x.com", status |-> "sending" ]
SentA == [ email |-> "a@x.com", status |-> "sent" ]
SendingB == [ email |-> "b@x.com", status |-> "sending" ]
FailedB == [ email |-> "b@x.com", status |-> "failed",
             error |-> "550 mailbox unavailable" ]
CompleteAB ==
    [ type |-> "complete",
      data |-> [ results |-> << SentA, FailedB >>, totalSent |-> 1, totalFailed |-> 1 ] ]
ErrorUnit(message) == [ type |-> "error", message |-> message ]

Streamed(units, ended) ==
    [ SetHeader(NewResponse, "Content-Type", "text/event-stream")
        EXCEPT !.stream = units, !.ended = ended ]

ServerResponses ==
    { RespondJson(NewResponse, 400, [ message |-> "Invalid JSON data in request" ]),
      RespondJson(NewResponse, 401,
          [ message |-> "SMTP authentication failed. Please check your credentials." ]),
      RespondJson(NewResponse, 500, [ message |-> "" ]),
      [ NewResponse EXCEPT !.statusCode = 500, !.ended = TRUE ],
      Streamed(<< SendingA, SentA, SendingB, FailedB, CompleteAB >>, TRUE),
      Streamed(<< SendingA, SentA, SendingB, FailedB, CompleteAB >>, FALSE),
      Streamed(<< SendingA, SentA, SendingB >>, TRUE),
      Streamed(<< >>, TRUE),
      Streamed(<< SendingA, ErrorUnit("write EPIPE") >>, TRUE),
      Streamed(<< SendingA, SentA, ErrorUnit("") >>, TRUE),
      Streamed(<< SendingA, SentA, CompleteAB, ErrorUnit("write EPIPE") >>, TRUE),
      Streamed(<< ErrorUnit("write EPIPE"), CompleteAB >>, TRUE) }

ClientRecipients == { << "a@x.com" >>, << "a@x.com", "b@x.com" >> }

InitClient ==
    /\ req = [ r \in Req |-> NoRequest ]
    /\ hnd = [ r \in Req |-> NewHandler(FALSE) ]
    /\ \E rs \in ServerResponses :
           res = [ r \in Req |-> IF r = 1 THEN rs ELSE NewResponse ]
    /\ mail = [ r \in Req |-> NewMail ]
    /\ connected = [ r \in Req |-> [ up |-> r = 1, delivered |-> 0 ] ]
    /\ \E rcpts \in ClientRecipients : cli = Submitted(NewClient(rcpts, << >>))

NextClient ==
    \/ FetchResolves
    \/ FetchFails
    \/ \E n \in 1..Len(Wire(res[1].stream)) : Read(n)
    \/ ReadDone
    \/ ReadFails
    \/ ConnectionLost

SpecClient == InitClient /\ [][NextClient]_vars

\* the units of the response of request 1 that are of a type
UnitsOfType(type) ==
    SelectSeq(res[1].stream, LAMBDA u : "type" \in DOMAIN u /\ u.type = type)

(***************************************************************************)
(* C28: handleSSEStream succeeds exactly when it received a "complete"     *)
(* unit and no "error" unit; it throws the server's message when an        *)
(* "error" unit arrives, the stream-ended message when the stream ends     *)
(* with neither, and it throws without reading the body when the response  *)
(* is not ok.                                                              *)
(***************************************************************************)
C28_SucceedsExactlyWhen ==
    LET errors == UnitsOfType("error")
    IN /\ cli.pc \in {"returned", "thrown"}
            => (cli.pc = "returned"
                    <=> cli.st.completed /\ cli.st.serverError = << >>)
       /\ (cli.pc = "thrown" /\ cli.st.serverError # << >>)
            => cli.thrown = errors[1].message
       /\ (cli.pc = "thrown" /\ cli.thrown = StreamEndedMessage)
            => ~cli.st.completed /\ cli.st.serverError = << >>
       /\ ~Ok(res[1]) => cli.body = "unread"

(***************************************************************************)
(* C28, amended: handleSSEStream returns only if it read the stream to its *)
(* end and a "complete" unit and no "error" unit was on it, and with such  *)
(* a stream it fails only if the connection does; with an "error" unit on  *)
(* the stream it throws the message of the first one (the fallback text if *)
(* that is empty); it throws the stream-ended message only when the stream *)
(* ended with neither; and if the response is not ok it reads the body as  *)
(* JSON, never as a stream, and throws the message of the body (the        *)
(* fallback text if that is empty, the parse error if the body is not      *)
(* JSON), the status list being as it was at submission.                   *)
(***************************************************************************)
C28_ConsumerOutcome ==
    LET complete == UnitsOfType("complete")
        errors == UnitsOfType("error")
        served == cli.pc = "thrown" /\ cli.thrown \notin NetworkMessages
    IN /\ cli.pc = "returned"
            => /\ Ok(res[1]) /\ complete # << >> /\ errors = << >>
               /\ cli.st.completed /\ cli.read = Len(Wire(res[1].stream))
               /\ res[1].ended
       /\ (served /\ Ok(res[1]) /\ errors # << >>)
            => cli.thrown = OrElse(errors[1].message,
                                   "Server error during email sending")
       /\ (served /\ Ok(res[1]) /\ errors = << >>)
            => /\ cli.thrown = StreamEndedMessage
               /\ complete = << >> /\ res[1].ended
               /\ cli.read = Len(Wire(res[1].stream))
       /\ ~Ok(res[1])
            => /\ cli.pc \in {"form", "unsent", "fetch", "thrown"}
               /\ cli.body \in {"unread", "json"}
               /\ cli.read = 0
               /\ cli.st.emailStatuses = Submitted(cli).st.emailStatuses
               /\ served => /\ cli.body = "json"
                            /\ cli.thrown =
                                 IF res[1].json = << >> THEN NotJsonMessage
                                 ELSE OrElse(res[1].json[1].message,
                                             "Failed to send emails")
       /\ cli.pc \in {"returned", "thrown"} => ~cli.isSending

\* the stream ended after three status units and the consumer threw the
\* stream-ended message
C28_Witness ==
    /\ cli.pc = "thrown" /\ cli.thrown = StreamEndedMessage
    /\ Len(res[1].stream) = 3 /\ res[1].ended
    /\ cli.st.emailStatuses[1].status = "sent"

\* what the consumer shows for its state
View(st) ==
    [ emailStatuses |-> st.emailStatuses, completed |-> st.completed,
      serverError |-> st.serverError, buffer |-> st.buffer, toasts |-> st.toasts ]

(***************************************************************************)
(* C29: the consumer does not depend on the chunk boundaries.  Whatever    *)
(* chunks the bytes read so far came in, the status list, completed, the   *)
(* server error, the unfinished line and the toasts are those of the same  *)
(* bytes read as one chunk, and so is the outcome.                         *)
(***************************************************************************)
C29_ChunkIndependent ==
    cli.pc \in {"reading", "returned", "thrown"} /\ cli.thrown \notin NetworkMessages
    /\ Ok(res[1])
    => LET whole == AfterChunk(Submitted(cli).st,
                               SubSeq(Wire(res[1].stream), 1, cli.read))
           one == [ Submitted(cli) EXCEPT !.st = whole, !.read = cli.read ]
       IN /\ View([ cli.st EXCEPT !.toasts = SelectSeq(@, LAMBDA t : t.title # "Error") ])
               = View(whole)
          /\ cli.pc = "returned" => Finished(one).pc = "returned"
          /\ cli.pc = "thrown" => /\ Finished(one).pc = "thrown"
                                   /\ Finished(one).thrown = cli.thrown

\* a chunk ended inside a line, and inside a character of it, after the
\* units before it were handled
C29_Witness ==
    /\ cli.pc = "reading"
    /\ cli.st.emailStatuses = << SentA, SendingB >>
    /\ StartsWithData(cli.st.buffer)
    /\ cli.st.held # << >>

(***************************************************************************)
(* The page and the server together: the page submits the form, the        *)
(* handler serves request 1 (its write of a "sent" unit may throw), and    *)
(* the page reads the response as it is written.  The recipients are those *)
(* parseEmails gives (line 104: none twice).                               *)
(***************************************************************************)
FormRecipients == { << >>, << "a@x.com" >>, << "a@x.com", "b@x.com" >> }
FormAttachments == { << >>, << PdfFile >>, << ZipFile >> }

InitE2E ==
    /\ req = [ r \in Req |-> NoRequest ]
    /\ hnd = [ r \in Req |-> NewHandler(FALSE) ]
    /\ res = [ r \in Req |-> NewResponse ]
    /\ mail = [ r \in Req |-> NewMail ]
    /\ connected = [ r \in Req |-> [ up |-> FALSE, delivered |-> 0 ] ]
    /\ \E rcpts \in FormRecipients : \E files \in FormAttachments :
           cli = NewClient(rcpts, files)

NextE2E ==
    \/ Next
    \/ \E r \in Req : \E error \in ThrownErrors : \E again, lost \in BOOLEAN :
           SentWriteThrows(r, error, again, lost)
    \/ Submit
    \/ FetchResolves
    \/ FetchFails
    \/ \E n \in 1..Len(Wire(res[1].stream)) : Read(n)
    \/ ReadDone
    \/ ReadFails
    \/ ConnectionLost

SpecE2E == InitE2E /\ [][NextE2E]_vars

(***************************************************************************)
(* C30: when the page has received the "complete" unit of its batch, its   *)
(* status list has one entry per submitted recipient, in input order, each *)
(* "sent" or "failed", and the list equals the results of the summary.     *)
(***************************************************************************)
C30_EndToEndAgreement ==
    cli.st.completed
    => LET summary == UnitsOfType("complete")[1].data
           list == cli.st.emailStatuses
       IN /\ Len(list) = Len(cli.recipients)
          /\ \A k \in 1..Len(list) :
                 /\ list[k].email = cli.recipients[k]
                 /\ list[k].status \in {"sent", "failed"}
          /\ list = summary.results

\* the page received the summary of a batch of two
C30_Witness ==
    /\ cli.st.completed
    /\ Len(cli.recipients) = 2
    /\ cli.pc = "returned"

\* lines 253-256: the entry a recipient gets when the batch starts
Pending(email) == [ email |-> email, status |-> "pending" ]

(***************************************************************************)
(* C31: the status list of the page keeps one entry per recipient.  From   *)
(* the start of the batch it has the recipients' emails, in their order;   *)
(* every entry is "pending" until something was read from the stream, and  *)
(* later an entry is the "pending" one or a status unit of the stream with *)
(* the same email.  No step adds, removes or reorders entries, and a unit  *)
(* for an unknown email changes nothing.                                   *)
(***************************************************************************)
C31_OneEntryPerRecipient ==
    LET list == cli.st.emailStatuses
    IN /\ Len(list) = Len(cli.recipients)
       /\ \A k \in 1..Len(list) :
              /\ list[k].email = cli.recipients[k]
              /\ \/ list[k] = Pending(cli.recipients[k])
                 \/ /\ cli.read > 0
                    /\ \E j \in 1..Len(res[1].stream) :
                           /\ res[1].stream[j] = list[k]
                           /\ "type" \notin DOMAIN list[k]

\* the units for b@x.com were read by a page whose only recipient is a@x.com
C31_Witness ==
    /\ cli.recipients = << "a@x.com" >>
    /\ cli.st.emailStatuses = << SentA >>
    /\ cli.st.completed
    /\ \E j \in 1..Len(res[1].stream) : res[1].stream[j] = FailedB

(***************************************************************************)
(* C32: the sending flag of the page.  It is true from the start of a      *)
(* submission until the handling of the stream ends (while fetch is        *)
(* pending and while the stream is read), and false once onSubmit has      *)
(* finished, on every exit: the batch completed, the server answered with  *)
(* a JSON error, fetch or a read failed, an "error" unit arrived, or the   *)
(* stream ended without a terminal unit.  A submission with no recipients  *)
(* never sets it, sends no request and creates no status list.             *)
(***************************************************************************)
C32_SendingFlag ==
    /\ cli.pc = "form" => ~cli.isSending
    /\ cli.pc \in {"fetch", "reading"} => cli.isSending
    /\ cli.pc \in {"returned", "thrown", "unsent"} => ~cli.isSending
    /\ cli.recipients = << >>
         => /\ ~cli.isSending
            /\ cli.pc \in {"form", "unsent"}
            /\ req[1] = NoRequest /\ hnd[1].pc = "idle"
            /\ cli.st.emailStatuses = << >>
    /\ cli.isSending => cli.recipients # << >> /\ cli.pc \in {"fetch", "reading"}

\* onSubmit finished after an "error" unit arrived on an open stream
C32_Witness ==
    /\ cli.pc = "thrown" /\ ~cli.isSending
    /\ cli.st.serverError # << >>
    /\ cli.body = "reader"

====
